---- MODULE Spec2Model ----
(***************************************************************************)
(* Credential lifecycle and external-state reconciliation of the Qveris    *)
(* VS Code / Cursor extension: the MCP config writer, the API key          *)
(* resolver, password login / logout / activation, the login-state view,   *)
(* and the OAuth handshake.                                                *)
(*                                                                         *)
(* Values.  A JSON / JavaScript scalar is a string token:                  *)
(*   "ABSENT"   the property does not exist (undefined)                    *)
(*   "null" "false" "0"   the JSON literals                                *)
(*   "1e999"    a JSON number literal beyond the double range              *)
(*   "Infinity" the JavaScript number JSON.parse makes of it               *)
(*   ""         the empty string; any other token is that string           *)
(***************************************************************************)
EXTENDS Naturals, Sequences, FiniteSets, TLC

VARIABLES
  isCursor,       \* isCursorApp(): the host is Cursor
  hasWorkspace,   \* vscode.workspace.workspaceFolders?.[0] exists
  files,          \* content of each MCP config path
  unwritable,     \* paths on which fs.mkdir / fs.writeFile reject
  pkgVersion,     \* the version getExtensionVersion reads from package.json
  mcpCalls,       \* number of ensureMcpConfigWithApiKey calls made (writer runs)
  mcpKey,         \* the API key handed to the writer
  mcpBefore,      \* files before the first call
  mcpAfterFirst,  \* files after the first call
  mcpReport,      \* [ok, failed]: paths reported by the last call
  keyIn,          \* obtainApiKey: the server's responses, the configuration, the clock
  keyOut,         \* obtainApiKey: its result and the requests it issued
  secrets,        \* context.secrets: slot -> value
  gstate,         \* context.globalState: key -> value
  flow,           \* the handleLogin calls
  lo,             \* the handleLogout call
  shown,          \* what the Home webview shows: loggedIn | loggedOut
  lastState,      \* the loginState message the webview handled last
  activated,      \* activate() has run in this window
  nonceCtr,       \* number of OAuth nonces generated so far
  processed,      \* the callback URIs handled so far
  cb,             \* the OAuth callback being handled
  rules,          \* the Cursor rules file and the last run of its writer
  srch,           \* the search / execute handlers: ids drawn, the last call handled
  cls,            \* isToolId: a query and its classification
  idc,            \* decodeClaims: a token and the claims decoded from it
  ui              \* the search and tool-specification views: webviews, handlers, messages

mcpVars == <<mcpCalls, mcpKey, mcpBefore, mcpAfterFirst, mcpReport>>
keyVars == <<keyIn, keyOut>>
hostVars == <<isCursor, hasWorkspace, files, unwritable, pkgVersion>>

lifeVars == <<secrets, gstate, flow, lo, shown, lastState, activated>>

oauthVars == <<nonceCtr, processed, cb>>

toolVars == <<rules, srch, cls, idc, ui>>

vars == <<hostVars, mcpVars, keyVars, lifeVars, oauthVars, toolVars>>

(***************************************************************************)
(* Host and paths                                                          *)
(***************************************************************************)
Paths == {"home", "ws"}   \* ~/.cursor/mcp.json, <workspace>/.vscode/mcp.json

isCursorApp == isCursor

getMcpConfigPaths ==
  IF isCursorApp THEN <<"home">>
  ELSE IF hasWorkspace THEN <<"ws">>
  ELSE <<"home">>

getAllKnownMcpPaths ==
  IF hasWorkspace THEN <<"home", "ws">> ELSE <<"home">>

Range(s) == {s[i] : i \in DOMAIN s}

(***************************************************************************)
(* JSON scalars                                                            *)
(***************************************************************************)
\* JSON.parse of a scalar: a number literal beyond the double range is Infinity
JsonParse(t) == IF t = "1e999" THEN "Infinity" ELSE t

\* JSON.stringify of a scalar: Infinity is written as null
JsonStringify(v) == IF v = "Infinity" THEN "null" ELSE v

\* JavaScript truthiness, as used by `x || default` and `!x`
Truthy(v) == v \notin {"ABSENT", "null", "false", "0", ""}

\* a || b
OrElse(a, b) == IF Truthy(a) THEN a ELSE b

(***************************************************************************)
(* MCP config documents                                                    *)
(*   kind    missing | empty | invalid : unreadable or unparsable text     *)
(*           null | prim | arr | obj   : the parsed top-level JSON value   *)
(*   fmt     pretty (as JSON.stringify(data, null, 2) writes) | other      *)
(*   top     value of another top-level key ("theme")                      *)
(*   ms      mcpServers: absent | falsy | prim | arr | obj                 *)
(*   other   value of another server entry ("other")                       *)
(*   q       mcpServers.qveris: absent | falsy | prim | arr | obj          *)
(*   command, args, extra   fields of the qveris entry ("extra": "cwd")    *)
(*   envk    qveris.env: absent | falsy | num | str | obj                  *)
(*   env     the variables of qveris.env                                   *)
(***************************************************************************)
EnvKeys == {"0", "FOO", "QVERIS_API_KEY"}

NoEnv == [k \in EnvKeys |-> "ABSENT"]

Doc(kind, fmt, top, ms, other, q, command, args, extra, envk, env) ==
  [kind |-> kind, fmt |-> fmt, top |-> top, ms |-> ms, other |-> other, q |-> q,
   command |-> command, args |-> args, extra |-> extra, envk |-> envk, env |-> env]

\* a document that is not a JSON object: nothing below the top level is modelled
Flat(kind, fmt) ==
  Doc(kind, fmt, "ABSENT", "absent", "ABSENT", "absent",
      "ABSENT", "ABSENT", "ABSENT", "absent", NoEnv)

MissingFile == Flat("missing", "other")

\* {} : what the writer starts from when the file is unreadable or unparsable
EmptyObject(fmt) == Flat("obj", fmt)

\* an object whose mcpServers holds no entry map
NoServers(fmt, top, ms) ==
  Doc("obj", fmt, top, ms, "ABSENT", "absent",
      "ABSENT", "ABSENT", "ABSENT", "absent", NoEnv)

\* an object whose mcpServers is a map without an object-valued qveris entry
NoEntry(fmt, top, other, q) ==
  Doc("obj", fmt, top, "obj", other, q,
      "ABSENT", "ABSENT", "ABSENT", "absent", NoEnv)

TopValues == {"ABSENT", "dark"}
OtherValues == {"ABSENT", "srv"}
CommandValues == {"ABSENT", "", "node", "1e999"}
ArgsValues == {"ABSENT", "null", "[custom]", "1e999"}
ExtraValues == {"ABSENT", "/tmp"}
KeyValues == {"K1", "K2"}
EnvMaps ==
  {e \in [EnvKeys -> {"ABSENT", "bar", "K1", "K2"}] :
     /\ e["0"] = "ABSENT"
     /\ e["FOO"] \in {"ABSENT", "bar"}
     /\ e["QVERIS_API_KEY"] \in {"ABSENT", "K1", "K2"}}

\* the object documents a user or an earlier run may have left on disk
ObjectDocs ==
  {NoServers(f, t, m) :
     f \in {"pretty", "other"}, t \in TopValues, m \in {"absent", "falsy", "prim", "arr"}}
  \cup
  {NoEntry(f, t, o, q) :
     f \in {"other"}, t \in {"ABSENT", "dark"}, o \in OtherValues,
     q \in {"absent", "falsy", "prim", "arr"}}
  \cup
  {Doc("obj", "other", "dark", "obj", o, "obj", c, a, x, k, NoEnv) :
     o \in OtherValues, c \in CommandValues, a \in ArgsValues, x \in ExtraValues,
     k \in {"absent", "falsy", "num", "str"}}
  \cup
  {Doc("obj", f, "dark", "obj", "srv", "obj", c, a, x, "obj", e) :
     f \in {"pretty", "other"}, c \in CommandValues, a \in ArgsValues,
     x \in ExtraValues, e \in EnvMaps}

AllDocs ==
  {MissingFile, Flat("empty", "other"), Flat("invalid", "other"),
   Flat("null", "other"), Flat("prim", "other"),
   Flat("arr", "other"), Flat("arr", "pretty")}
  \cup ObjectDocs

(***************************************************************************)
(* writeMcpConfigFile                                                      *)
(***************************************************************************)
\* data after the try/catch: unreadable or unparsable content becomes {}
ReadData(doc) ==
  IF doc.kind \in {"missing", "empty", "invalid"} THEN EmptyObject("other") ELSE doc

\* `data.mcpServers` of null throws; `data.mcpServers = {}` on a primitive
\* throws in a strict-mode module (and `undefined.qveris` throws otherwise)
Throws(data) == data.kind \in {"null", "prim"}

\* existing = data.mcpServers.qveris || {}, read after mcpServers was ensured
ExistingField(data, f) ==
  IF data.ms = "obj" /\ data.q = "obj" THEN JsonParse(data[f]) ELSE "ABSENT"

\* { ...existingEnv, QVERIS_API_KEY: apiKey }
SpreadEnv(data, apiKey) ==
  LET k == IF data.ms = "obj" /\ data.q = "obj" THEN data.envk ELSE "absent"
      base == IF k = "obj" THEN data.env
              ELSE IF k = "str" THEN [NoEnv EXCEPT !["0"] = "s"]
              ELSE NoEnv
  IN [base EXCEPT !["QVERIS_API_KEY"] = apiKey]

EntryCommand(data) == OrElse(ExistingField(data, "command"), "npx")

EntryArgs(data) == OrElse(ExistingField(data, "args"), "[@qverisai/sdk]")

\* the document JSON.stringify(data, null, 2) writes
WrittenDoc(data, apiKey) ==
  IF data.kind = "arr" THEN Flat("arr", "pretty")
  ELSE IF data.ms = "arr"
    THEN NoServers("pretty", JsonStringify(JsonParse(data.top)), "arr")
  ELSE Doc("obj", "pretty", JsonStringify(JsonParse(data.top)), "obj",
           IF data.ms = "obj" THEN data.other ELSE "ABSENT", "obj",
           JsonStringify(EntryCommand(data)), JsonStringify(EntryArgs(data)),
           "ABSENT", "obj", SpreadEnv(data, apiKey))

\* [ok, doc]: whether the call resolved, and the file afterwards
writeMcpConfigFile(doc, canWrite, apiKey) ==
  IF ~canWrite \/ Throws(ReadData(doc))
  THEN [ok |-> FALSE, doc |-> doc]
  ELSE [ok |-> TRUE, doc |-> WrittenDoc(ReadData(doc), apiKey)]

(***************************************************************************)
(* ensureMcpConfigWithApiKey                                               *)
(***************************************************************************)
WriteResult(fs, bad, p, apiKey) == writeMcpConfigFile(fs[p], p \notin bad, apiKey)

FilesAfterEnsure(fs, bad, apiKey) ==
  IF ~Truthy(apiKey) THEN fs
  ELSE [p \in Paths |->
          IF p \in Range(getMcpConfigPaths)
          THEN WriteResult(fs, bad, p, apiKey).doc ELSE fs[p]]

\* a report that leaves the failed paths out
ReportOnlySucceeded(fs, bad, apiKey) ==
  [ok |-> {p \in Range(getMcpConfigPaths) : WriteResult(fs, bad, p, apiKey).ok},
   failed |-> {}]

ReportAfterEnsure(fs, bad, apiKey) ==
  IF ~Truthy(apiKey) THEN [ok |-> {}, failed |-> {}]
  ELSE [ok |-> {p \in Range(getMcpConfigPaths) : WriteResult(fs, bad, p, apiKey).ok},
        failed |-> {p \in Range(getMcpConfigPaths) : ~WriteResult(fs, bad, p, apiKey).ok}]

(***************************************************************************)
(* obtainApiKey                                                            *)
(*   a response is [throws, status, ...]: axios rejected (network error,   *)
(*   timeout, non-2xx), or resolved with data.status and the payload       *)
(***************************************************************************)
MaxClock == 2

NameSettings == {"", "ci"}   \* qverisAi.apiKeyName unset, or set

ApiKeyTokens == {"ABSENT", "", "K1", "K2"}

\* data.data.api_keys: an array of key records, or anything else
KeyLists ==
  {[isArray |-> FALSE, items |-> <<>>],
   [isArray |-> TRUE, items |-> <<>>],
   [isArray |-> TRUE, items |-> <<[name |-> "first", id |-> "ABSENT"]>>],
   [isArray |-> TRUE, items |-> <<[name |-> "first", id |-> "id1"],
                                  [name |-> "second", id |-> "id2"]>>]}

ListResponses ==
  [throws : BOOLEAN, status : {"success", "error"}, api_keys : KeyLists]

\* notFound: the rejection is a 404
KeyResponses ==
  [throws : BOOLEAN, notFound : BOOLEAN, status : {"success", "error"},
   api_key : ApiKeyTokens]

NoKeyIn ==
  [list |-> [throws |-> TRUE, status |-> "error",
             api_keys |-> [isArray |-> FALSE, items |-> <<>>]],
   full |-> [throws |-> TRUE, notFound |-> FALSE, status |-> "error", api_key |-> "ABSENT"],
   create |-> [throws |-> TRUE, notFound |-> FALSE, status |-> "error", api_key |-> "ABSENT"],
   apiKeyName |-> "", now |-> 0]

NoKeyOut == [done |-> FALSE, ok |-> FALSE, key |-> "ABSENT", log |-> <<>>]

KeyIdle == keyIn = NoKeyIn /\ keyOut = NoKeyOut

\* listResp.data?.status === 'success' && Array.isArray(api_keys) && keys.length > 0
ListHasKey(listR) ==
  /\ ~listR.throws
  /\ listR.status = "success"
  /\ listR.api_keys.isArray
  /\ Len(listR.api_keys.items) > 0

\* a success envelope accepted without looking at the key it carries
HasKeyAnyValue(r) == ~r.throws /\ r.status = "success"

\* fullKeyResp.data?.status === 'success' && fullKeyResp.data?.data?.api_key
HasKey(r) == ~r.throws /\ r.status = "success" /\ Truthy(r.api_key)

\* `${requestedName}-${Date.now()}`
KeyName(apiKeyName, now) == OrElse(apiKeyName, "vscode") \o "-" \o ToString(now)

FullRequest(listR) == [op |-> "get-full-key", arg |-> listR.api_keys.items[1].name]

CreateRequest(apiKeyName, now) == [op |-> "create", arg |-> KeyName(apiKeyName, now)]

\* the requests issued before the create step
LookupLog(listR) ==
  IF ListHasKey(listR)
  THEN <<[op |-> "list", arg |-> ""], FullRequest(listR)>>
  ELSE <<[op |-> "list", arg |-> ""]>>

\* a resolver that gives up when the list call is rejected
obtainApiKeyNoFallback(listR, fullR, createR, apiKeyName, now) ==
  IF listR.throws
  THEN [ok |-> FALSE, key |-> "ABSENT", log |-> LookupLog(listR)]
  ELSE IF ListHasKey(listR) /\ HasKey(fullR)
  THEN [ok |-> TRUE, key |-> fullR.api_key, log |-> LookupLog(listR)]
  ELSE [ok |-> HasKey(createR),
        key |-> IF HasKey(createR) THEN createR.api_key ELSE "ABSENT",
        log |-> Append(LookupLog(listR), CreateRequest(apiKeyName, now))]

\* a resolver that creates a key even after it fetched the listed one
obtainApiKeyAlwaysCreates(listR, fullR, createR, apiKeyName, now) ==
  [ok |-> (ListHasKey(listR) /\ HasKey(fullR)) \/ HasKey(createR),
   key |-> IF ListHasKey(listR) /\ HasKey(fullR) THEN fullR.api_key
           ELSE IF HasKey(createR) THEN createR.api_key ELSE "ABSENT",
   log |-> Append(LookupLog(listR), CreateRequest(apiKeyName, now))]

\* [ok, key, log]: returned (ok) or thrown, the key, the requests in order
obtainApiKey(listR, fullR, createR, apiKeyName, now) ==
  IF ListHasKey(listR) /\ HasKey(fullR)
  THEN [ok |-> TRUE, key |-> fullR.api_key, log |-> LookupLog(listR)]
  ELSE IF HasKey(createR)
  THEN [ok |-> TRUE, key |-> createR.api_key,
        log |-> Append(LookupLog(listR), CreateRequest(apiKeyName, now))]
  ELSE [ok |-> FALSE, key |-> "ABSENT",
        log |-> Append(LookupLog(listR), CreateRequest(apiKeyName, now))]

(***************************************************************************)
(* Credential Store Adapter: namespaced slots of the two stores            *)
(***************************************************************************)
\* one suffix for both hosts
HostSuffixShared(cursor) == "vscode"

\* isCursorApp() ? 'cursor' : 'vscode'
HostSuffix(cursor) == IF cursor THEN "cursor" ELSE "vscode"

secretKeyName(base) == base \o "." \o HostSuffix(isCursorApp)

globalStateKey(base) == base \o "." \o HostSuffix(isCursorApp)

SecretBases == {"qverisApiKey", "qverisAccessToken", "qverisEmail"}

SecretKeys == {b \o "." \o HostSuffix(c) : b \in SecretBases, c \in BOOLEAN}

GlobalKeys ==
  {b \o "." \o HostSuffix(c) :
     b \in {"qverisEmail", "oauthState", "sessionId", "lastSearchId",
            "extensionVersion"}, c \in BOOLEAN}

ApiKeySlot == secretKeyName("qverisApiKey")
TokenSlot == secretKeyName("qverisAccessToken")
EmailSlot == secretKeyName("qverisEmail")
PlainEmailSlot == globalStateKey("qverisEmail")
SessionSlot == globalStateKey("sessionId")
LastSearchSlot == globalStateKey("lastSearchId")
VersionSlot == globalStateKey("extensionVersion")

(***************************************************************************)
(* performLogin                                                            *)
(***************************************************************************)
LoginResponses ==
  [throws : BOOLEAN, status : {"success", "error"},
   token : {"ABSENT", "T1"}, access_token : {"ABSENT", "T1", "T2"}]

\* userInfo.data?.data?.email
UserInfoResponses == [throws : BOOLEAN, email : {"ABSENT", "u@b.com"}]

\* how the key list came back: failed | empty | some
ListOutcome(listR) ==
  IF listR.throws \/ listR.status # "success" \/ ~listR.api_keys.isArray THEN "failed"
  ELSE IF Len(listR.api_keys.items) = 0 THEN "empty"
  ELSE "some"

Ops(log) == [i \in DOMAIN log |-> log[i].op]

NoResult ==
  [ok |-> FALSE, token |-> "ABSENT", email |-> "ABSENT", apiKey |-> "ABSENT",
   listed |-> "none", log |-> <<>>]

Thrown(log) == [NoResult EXCEPT !.log = log]

\* loginResponse.data.token || loginResponse.data.data?.access_token
LoginToken(loginR) == OrElse(loginR.token, loginR.access_token)

\* a login that asks for the profile whether or not it got a token
performLoginEager(loginR, infoR, listR, fullR, createR, email, apiKeyName, now) ==
  LET key == obtainApiKey(listR, fullR, createR, apiKeyName, now)
  IN IF infoR.throws \/ loginR.throws \/ loginR.status # "success"
          \/ ~Truthy(LoginToken(loginR))
     THEN Thrown(<<"login", "userinfo">>)
     ELSE IF ~key.ok
     THEN [Thrown(<<"login", "userinfo">> \o Ops(key.log)) EXCEPT
             !.listed = ListOutcome(listR)]
     ELSE [ok |-> TRUE, token |-> LoginToken(loginR),
           email |-> OrElse(infoR.email, email), apiKey |-> key.key,
           listed |-> ListOutcome(listR),
           log |-> <<"login", "userinfo">> \o Ops(key.log)]

performLogin(loginR, infoR, listR, fullR, createR, email, apiKeyName, now) ==
  LET key == obtainApiKey(listR, fullR, createR, apiKeyName, now)
  IN IF loginR.throws \/ loginR.status # "success" \/ ~Truthy(LoginToken(loginR))
     THEN Thrown(<<"login">>)
     ELSE IF infoR.throws
     THEN Thrown(<<"login", "userinfo">>)
     ELSE IF ~key.ok
     THEN [Thrown(<<"login", "userinfo">> \o Ops(key.log)) EXCEPT
             !.listed = ListOutcome(listR)]
     ELSE [ok |-> TRUE, token |-> LoginToken(loginR),
           email |-> OrElse(infoR.email, email), apiKey |-> key.key,
           listed |-> ListOutcome(listR),
           log |-> <<"login", "userinfo">> \o Ops(key.log)]

(***************************************************************************)
(* ViewStateManager.getLoginState and the Home webview                     *)
(***************************************************************************)
\* getStoredEmail: the secret email, else the plain-state email
getStoredEmail(sec, gs) == OrElse(sec[EmailSlot], gs[PlainEmailSlot])

\* { email: email || null, hasKey: !!key }
getLoginState(sec, gs) ==
  [email |-> OrElse(getStoredEmail(sec, gs), "null"),
   hasKey |-> Truthy(sec[ApiKeySlot])]

\* a handler that looks at hasKey alone
ShownForKeyOnly(msg) == IF msg.hasKey THEN "loggedIn" ELSE "loggedOut"

\* the webview's loginState handler: msg.hasKey && msg.email
ShownFor(msg) ==
  IF msg.hasKey /\ Truthy(msg.email) THEN "loggedIn" ELSE "loggedOut"

(***************************************************************************)
(* readApiKeyFromMcpConfigs                                                *)
(***************************************************************************)
IsString(t) == t \notin {"ABSENT", "null", "false", "0", "1e999", "Infinity"}

\* String.prototype.trim on the tokens in use
Trim(t) == IF t = " KF " THEN "KF" ELSE IF t = "  " THEN "" ELSE t

\* data?.mcpServers?.qveris?.env?.QVERIS_API_KEY
ConfigKey(doc) ==
  IF doc.kind = "obj" /\ doc.ms = "obj" /\ doc.q = "obj" /\ doc.envk = "obj"
  THEN doc.env["QVERIS_API_KEY"] ELSE "ABSENT"

KeyFound(doc) == IsString(ConfigKey(doc)) /\ Truthy(Trim(ConfigKey(doc)))

RECURSIVE FirstKey(_, _)
FirstKey(fs, paths) ==
  IF paths = <<>> THEN "ABSENT"
  ELSE IF KeyFound(fs[Head(paths)]) THEN Trim(ConfigKey(fs[Head(paths)]))
  ELSE FirstKey(fs, Tail(paths))

\* a reader that looks at the paths last to first
readApiKeyLastFirst(fs) ==
  FirstKey(fs, [i \in DOMAIN getAllKnownMcpPaths |->
                  getAllKnownMcpPaths[Len(getAllKnownMcpPaths) + 1 - i]])

readApiKeyFromMcpConfigs(fs) == FirstKey(fs, getAllKnownMcpPaths)

(***************************************************************************)
(* handleLogin, handleLogout, activation: the steps between awaits         *)
(*   flow[p]  one handleLogin call: pc, the performLogin result, the slots *)
(*            this call has written, the paths reconciliation reported,    *)
(*            and how the call ended                                       *)
(*   lo       the handleLogout call                                        *)
(***************************************************************************)
\* the handleLogin calls in use: the handlers run one at a time
Procs == {1}

IdleFlow ==
  [pc |-> "idle", email |-> "ABSENT", password |-> "ABSENT", res |-> NoResult,
   written |-> {}, report |-> [ok |-> {}, failed |-> {}], outcome |-> "none"]

\* the flow of a handleLogin(email, password) call that has just been made
Called(email, password) == [IdleFlow EXCEPT !.email = email, !.password = password]

\* since: loggedOut from the completion of a handleLogout until a login
\* stores a key
IdleLogout == [pc |-> "idle", outcome |-> "none", since |-> "none"]

NoLoginState == [email |-> "null", hasKey |-> FALSE]

Quiescent ==
  lo.pc = "idle" /\ cb.pc = "idle" /\ \A p \in Procs : flow[p].pc = "idle"

LifeIdle ==
  /\ secrets = [k \in SecretKeys |-> "ABSENT"]
  /\ gstate = [k \in GlobalKeys |-> "ABSENT"]
  /\ flow = [p \in Procs |-> IdleFlow]
  /\ lo = IdleLogout
  /\ shown = "loggedOut"
  /\ lastState = NoLoginState
  /\ activated = FALSE

\* ensureMcpConfigWithStoredKey: the key the stored slot or the config files give
StoredOrDiscovered(sec, fs) ==
  IF Truthy(sec[ApiKeySlot]) THEN sec[ApiKeySlot] ELSE readApiKeyFromMcpConfigs(fs)

\* activate() as far as the secret store and the config files go
\* (ensureMcpConfigWithStoredKey; Startup is the whole of it);
\* storeOk: secrets.store resolves
Activate ==
  /\ ~activated
  /\ Quiescent
  /\ activated' = TRUE
  /\ \E storeOk \in BOOLEAN :
       LET apiKey == StoredOrDiscovered(secrets, files)
           discovered == ~Truthy(secrets[ApiKeySlot]) /\ Truthy(apiKey)
       IN IF discovered /\ ~storeOk
          THEN UNCHANGED <<secrets, files>>
          ELSE /\ secrets' = IF discovered
                             THEN [secrets EXCEPT ![ApiKeySlot] = apiKey]
                             ELSE secrets
               /\ files' = FilesAfterEnsure(files, unwritable, apiKey)
  /\ UNCHANGED <<isCursor, hasWorkspace, unwritable, pkgVersion, gstate, flow, lo, shown,
                 lastState, mcpVars, keyVars, toolVars, oauthVars>>

Deactivate ==
  /\ activated
  /\ Quiescent
  /\ activated' = FALSE
  /\ UNCHANGED <<hostVars, secrets, gstate, flow, lo, shown, lastState,
                 mcpVars, keyVars, toolVars, oauthVars>>

\* emitStoredState: the webview asked for the login state
EmitStoredState ==
  /\ activated
  /\ lastState' = getLoginState(secrets, gstate)
  /\ shown' = ShownFor(lastState')
  /\ UNCHANGED <<hostVars, secrets, gstate, flow, lo, activated, mcpVars, keyVars, toolVars, oauthVars>>

SetFlow(p, f) == flow' = [flow EXCEPT ![p] = f]

Ended(f, outcome) == [f EXCEPT !.pc = "done", !.outcome = outcome]

LoginFrame == UNCHANGED <<hostVars, secrets, gstate, lo, shown, lastState,
                          activated, mcpVars, keyVars, toolVars, oauthVars>>

\* what the user may have typed into the form
Emails == {"", "a@b.com"}

Passwords == {"", "x"}

\* a check that lets every input through
LoginInputAny(email, password) == TRUE

\* !(!email || !password)
LoginInput(email, password) == Truthy(email) /\ Truthy(password)

\* handleLogin with an empty email or password: the error message, return
LoginInvalid(p) ==
  /\ activated
  /\ flow[p].pc = "idle"
  /\ \E email \in Emails, password \in Passwords :
       /\ ~LoginInput(email, password)
       /\ SetFlow(p, Ended(Called(email, password), "invalid"))
  /\ LoginFrame

\* the responses a login is run against: each way every call can come back
LoginCases ==
  {r \in LoginResponses :
     \/ r.throws /\ r.status = "error" /\ r.token = "ABSENT" /\ r.access_token = "ABSENT"
     \/ ~r.throws /\ r.status = "error" /\ r.token = "T1" /\ r.access_token = "ABSENT"
     \/ ~r.throws /\ r.status = "success" /\ r.access_token # "T2" /\ r.token # r.access_token
     \/ ~r.throws /\ r.status = "success" /\ r.token = "ABSENT" /\ r.access_token = "ABSENT"
     \/ ~r.throws /\ r.status = "success" /\ r.token = "T1" /\ r.access_token = "T2"}

KeyCases(key) ==
  {r \in KeyResponses :
     /\ ~r.notFound
     /\ \/ r.throws /\ r.status = "error" /\ r.api_key = "ABSENT"
        \/ ~r.throws /\ r.status = "error" /\ r.api_key = key
        \/ ~r.throws /\ r.status = "success" /\ r.api_key \in {"ABSENT", "", key}}

ListCases ==
  {r \in ListResponses :
     \/ r.throws /\ r.status = "error" /\ ~r.api_keys.isArray
     \/ ~r.throws /\ r.status = "error" /\ Len(r.api_keys.items) = 1
     \/ ~r.throws /\ r.status = "success"}

\* what performLogin can return or throw for the typed email
LoginResults ==
  {performLogin(loginR, infoR, listR, fullR, createR, "a@b.com", apiKeyName, now) :
     loginR \in LoginCases, infoR \in UserInfoResponses, listR \in ListCases,
     fullR \in KeyCases("K1"), createR \in KeyCases("K1"),
     apiKeyName \in NameSettings, now \in 1..MaxClock}

\* handleLogin up to the return (or throw) of performLogin
LoginRequest(p) ==
  /\ activated
  /\ flow[p].pc = "idle"
  /\ \E email \in Emails, password \in Passwords, r \in LoginResults :
       /\ LoginInput(email, password)
       /\ SetFlow(p, IF r.ok
                     THEN [Called(email, password) EXCEPT !.pc = "storeKey", !.res = r]
                     ELSE Ended([Called(email, password) EXCEPT !.res = r], "failed"))
  /\ LoginFrame

\* await context.secrets.store(slot, value): resolves, or rejects into the catch
StoreSecret(p, pc, slot, value, next) ==
  /\ flow[p].pc = pc
  /\ \/ /\ secrets' = [secrets EXCEPT ![slot] = value]
        /\ SetFlow(p, [flow[p] EXCEPT !.pc = next, !.written = @ \cup {slot}])
        /\ lo' = IF slot = ApiKeySlot THEN [lo EXCEPT !.since = "none"] ELSE lo
     \/ /\ UNCHANGED <<secrets, lo>>
        /\ SetFlow(p, Ended(flow[p], "failed"))
  /\ UNCHANGED <<hostVars, gstate, shown, lastState, activated, mcpVars, keyVars, toolVars, oauthVars>>

StoreApiKey(p) ==
  StoreSecret(p, "storeKey", ApiKeySlot, flow[p].res.apiKey, "storeToken")

StoreAccessToken(p) ==
  StoreSecret(p, "storeToken", TokenSlot, flow[p].res.token, "storeEmail")

StoreEmail(p) ==
  StoreSecret(p, "storeEmail", EmailSlot, flow[p].res.email, "updateEmail")

\* await context.globalState.update(globalStateKey('qverisEmail'), email)
UpdatePlainEmail(p) ==
  /\ flow[p].pc = "updateEmail"
  /\ \/ /\ gstate' = [gstate EXCEPT ![PlainEmailSlot] = flow[p].res.email]
        /\ SetFlow(p, [flow[p] EXCEPT !.pc = "reconcile"])
     \/ /\ UNCHANGED gstate
        /\ SetFlow(p, Ended(flow[p], "failed"))
  /\ UNCHANGED <<hostVars, secrets, lo, shown, lastState, activated, mcpVars, keyVars, toolVars, oauthVars>>

\* await ensureMcpConfigWithApiKey(loginResult.apiKey)
Reconcile(p) ==
  /\ flow[p].pc = "reconcile"
  /\ files' = FilesAfterEnsure(files, unwritable, flow[p].res.apiKey)
  /\ SetFlow(p, [flow[p] EXCEPT
                   !.pc = "notify",
                   !.report = ReportAfterEnsure(files, unwritable, flow[p].res.apiKey)])
  /\ UNCHANGED <<isCursor, hasWorkspace, unwritable, pkgVersion, secrets, gstate, lo, shown,
                 lastState, activated, mcpVars, keyVars, toolVars, oauthVars>>

\* await stateManager.notifyLoginStateChanged(), then the success message
NotifyLogin(p) ==
  /\ flow[p].pc = "notify"
  /\ lastState' = getLoginState(secrets, gstate)
  /\ shown' = ShownFor(lastState')
  /\ SetFlow(p, Ended(flow[p], "ok"))
  /\ UNCHANGED <<hostVars, secrets, gstate, lo, activated, mcpVars, keyVars, toolVars, oauthVars>>

\* handleLogin has returned
LoginReturn(p) ==
  /\ flow[p].pc = "done"
  /\ SetFlow(p, IdleFlow)
  /\ LoginFrame

LogoutStart ==
  /\ activated
  /\ lo.pc = "idle"
  /\ lo' = [lo EXCEPT !.pc = "deleteKey", !.outcome = "none"]
  /\ UNCHANGED <<hostVars, secrets, gstate, flow, shown, lastState, activated,
                 mcpVars, keyVars, toolVars, oauthVars>>

\* await context.secrets.delete(slot): resolves, or rejects out of handleLogout
DeleteSecret(pc, slot, next) ==
  /\ lo.pc = pc
  /\ \/ /\ secrets' = [secrets EXCEPT ![slot] = "ABSENT"]
        /\ lo' = [lo EXCEPT !.pc = next]
     \/ /\ UNCHANGED secrets
        /\ lo' = [lo EXCEPT !.pc = "done", !.outcome = "failed"]
  /\ UNCHANGED <<hostVars, gstate, flow, shown, lastState, activated, mcpVars, keyVars, toolVars, oauthVars>>

DeleteApiKey == DeleteSecret("deleteKey", ApiKeySlot, "deleteToken")

DeleteAccessToken == DeleteSecret("deleteToken", TokenSlot, "deleteEmail")

DeleteEmail == DeleteSecret("deleteEmail", EmailSlot, "clearEmail")

\* a logout that wipes the global state
WithoutPlainEmailAll(g) == [k \in DOMAIN g |-> "ABSENT"]

\* globalState after update(globalStateKey('qverisEmail'), undefined)
WithoutPlainEmail(g) == [g EXCEPT ![PlainEmailSlot] = "ABSENT"]

\* await context.globalState.update(globalStateKey('qverisEmail'), undefined)
ClearPlainEmail ==
  /\ lo.pc = "clearEmail"
  /\ \/ /\ gstate' = WithoutPlainEmail(gstate)
        /\ lo' = [lo EXCEPT !.pc = "notify"]
     \/ /\ UNCHANGED gstate
        /\ lo' = [lo EXCEPT !.pc = "done", !.outcome = "failed"]
  /\ UNCHANGED <<hostVars, secrets, flow, shown, lastState, activated, mcpVars, keyVars, toolVars, oauthVars>>

NotifyLogout ==
  /\ lo.pc = "notify"
  /\ lastState' = getLoginState(secrets, gstate)
  /\ shown' = ShownFor(lastState')
  /\ lo' = [lo EXCEPT !.pc = "done", !.outcome = "ok", !.since = "loggedOut"]
  /\ UNCHANGED <<hostVars, secrets, gstate, flow, activated, mcpVars, keyVars, toolVars, oauthVars>>

LogoutReturn ==
  /\ lo.pc = "done"
  /\ lo' = [lo EXCEPT !.pc = "idle", !.outcome = "none"]
  /\ UNCHANGED <<hostVars, secrets, gstate, flow, shown, lastState, activated,
                 mcpVars, keyVars, toolVars, oauthVars>>

(***************************************************************************)
(* OAuth handshake                                                         *)
(*   cb  the callback being handled: the URI, whether it had been handled  *)
(*       before, the nonce and secrets found, whether key resolution was   *)
(*       started, and how it ended                                         *)
(***************************************************************************)
MaxNonces == 2

\* a generator whose random part repeats
generateOAuthStateSame(draw) == HostSuffix(isCursorApp) \o "-" \o "same"

\* `${schema}-${random}`; draw stands for the two Math.random() strings
generateOAuthState(draw) == HostSuffix(isCursorApp) \o "-" \o ToString(draw)

OAuthStateSlot == globalStateKey("oauthState")

\* <scheme>://<authority>/auth-callback?f=<state>&access_token=<token>
\* match: scheme, authority and path are the expected ones
CallbackUris ==
  [match : BOOLEAN,
   state : {"ABSENT", "forged"} \cup {generateOAuthState(n) : n \in 1..MaxNonces},
   token : {"ABSENT", "T1"}]

NoUri == [match |-> FALSE, state |-> "ABSENT", token |-> "ABSENT"]

IdleCallback ==
  [pc |-> "idle", uri |-> NoUri, replay |-> FALSE, nonce |-> "ABSENT",
   before |-> [k \in SecretKeys |-> "ABSENT"], resolving |-> FALSE,
   outcome |-> "none"]

OAuthIdle == nonceCtr = 0 /\ processed = {} /\ cb = IdleCallback

\* step 3: both query parameters are present
HasParams(uri) == Truthy(uri.state) /\ Truthy(uri.token)

\* a comparison that lets every state through
StateMatchesAny(uri, nonce) == TRUE

\* step 4: a nonce is persisted and the received state equals it
StateMatches(uri, nonce) == Truthy(nonce) /\ uri.state = nonce

\* the keys obtainApiKey can return or throw
KeyResults ==
  {obtainApiKey(listR, fullR, createR, apiKeyName, now) :
     listR \in ListCases, fullR \in KeyCases("K1"), createR \in KeyCases("K1"),
     apiKeyName \in NameSettings, now \in 1..MaxClock}

OAuthFrame == UNCHANGED <<hostVars, secrets, flow, lo, shown, lastState, activated,
                          mcpVars, keyVars, toolVars>>

\* step 1: a fresh nonce replaces the persisted one and the browser is opened
OAuthInitiate ==
  /\ activated
  /\ cb.pc = "idle"
  /\ nonceCtr < MaxNonces
  /\ nonceCtr' = nonceCtr + 1
  /\ gstate' = [gstate EXCEPT ![OAuthStateSlot] = generateOAuthState(nonceCtr + 1)]
  /\ UNCHANGED <<processed, cb>>
  /\ OAuthFrame

HandledCallback(uri, resolving, outcome) ==
  [pc |-> "done", uri |-> uri, replay |-> uri \in processed,
   nonce |-> gstate[OAuthStateSlot], before |-> secrets,
   resolving |-> resolving, outcome |-> outcome]

\* step 2: a URI that is not the callback is left alone
OAuthIgnore(uri) ==
  /\ ~uri.match
  /\ cb' = HandledCallback(uri, FALSE, "ignored")
  /\ UNCHANGED <<gstate, processed, nonceCtr>>
  /\ OAuthFrame

\* steps 3 and 4 failing: the nonce is cleared, nothing else happens
OAuthReject(uri) ==
  /\ uri.match
  /\ ~HasParams(uri) \/ ~StateMatches(uri, gstate[OAuthStateSlot])
  /\ cb' = HandledCallback(uri, FALSE,
                           IF HasParams(uri) THEN "mismatch" ELSE "missing")
  /\ gstate' = [gstate EXCEPT ![OAuthStateSlot] = "ABSENT"]
  /\ processed' = processed \cup {uri}
  /\ UNCHANGED nonceCtr
  /\ OAuthFrame

\* steps 4 to 6: the nonce is cleared, the key resolved or created, and on
\* success the credential persisted and the MCP config reconciled
OAuthAccept(uri) ==
  /\ uri.match
  /\ HasParams(uri)
  /\ StateMatches(uri, gstate[OAuthStateSlot])
  /\ processed' = processed \cup {uri}
  /\ \E key \in KeyResults :
       /\ cb' = HandledCallback(uri, TRUE, IF key.ok THEN "ok" ELSE "failed")
       /\ IF key.ok
          THEN /\ secrets' = [secrets EXCEPT ![ApiKeySlot] = key.key,
                                             ![TokenSlot] = uri.token,
                                             ![EmailSlot] = "u@b.com"]
               /\ gstate' = [gstate EXCEPT ![OAuthStateSlot] = "ABSENT",
                                           ![PlainEmailSlot] = "u@b.com"]
               /\ files' = FilesAfterEnsure(files, unwritable, key.key)
          ELSE /\ gstate' = [gstate EXCEPT ![OAuthStateSlot] = "ABSENT"]
               /\ UNCHANGED <<secrets, files>>
  /\ UNCHANGED <<isCursor, hasWorkspace, unwritable, pkgVersion, nonceCtr, flow, lo, shown,
                 lastState, activated, mcpVars, keyVars, toolVars>>

\* the states a URI can carry: none, one made up, or a nonce already issued
\* (a nonce not yet drawn cannot be guessed)
KnownStates == {"ABSENT", "forged"} \cup {generateOAuthState(n) : n \in 1..nonceCtr}

OAuthCallback ==
  /\ activated
  /\ cb.pc = "idle"
  /\ \E uri \in CallbackUris :
       /\ uri.state \in KnownStates
       /\ OAuthIgnore(uri) \/ OAuthReject(uri) \/ OAuthAccept(uri)

OAuthReturn ==
  /\ cb.pc = "done"
  /\ cb' = IdleCallback
  /\ UNCHANGED <<gstate, processed, nonceCtr>>
  /\ OAuthFrame

(***************************************************************************)
(* maybeEnsureCursorPromptInRules                                          *)
(*   a rules text is the sequence of its parts: "HEADER" the front matter  *)
(*   the writer generates, "PROMPT" the text of CURSOR_PROMPT, anything    *)
(*   else prose the user wrote                                             *)
(***************************************************************************)
MaxRuns == 2

RuleTexts ==
  {<<>>, <<"notes">>, <<"HEADER", "PROMPT">>, <<"notes", "PROMPT">>,
   <<"notes", "HEADER", "PROMPT", "more">>, <<"old prompt">>}

IdleRules ==
  [file |-> [exists |-> FALSE, text |-> <<>>], canWrite |-> TRUE, copied |-> FALSE,
   runs |-> 0, force |-> FALSE, before |-> [exists |-> FALSE, text |-> <<>>],
   wrote |-> FALSE, message |-> "none"]

\* buildRulesFileContent(existing): the parameter is not used
buildRulesFileContent(existing) == <<"HEADER", "PROMPT">>

\* the body of maybeEnsureCursorPromptInRules once the host is Cursor with a
\* workspace; write: the condition under which it writes
RulesRun(r, forceReplace, write) ==
  LET existing == IF r.file.exists THEN r.file.text ELSE <<>>
      ran == [r EXCEPT !.runs = @ + 1, !.force = forceReplace, !.before = r.file,
                       !.wrote = FALSE, !.message = "none"]
  IN IF ~isCursorApp \/ ~hasWorkspace THEN ran
     ELSE IF ~write THEN [ran EXCEPT !.copied = TRUE]
     ELSE IF ~r.canWrite THEN [ran EXCEPT !.message = "failed"]
     ELSE [ran EXCEPT !.file = [exists |-> TRUE, text |-> buildRulesFileContent(existing)],
                      !.wrote = TRUE, !.copied = TRUE,
                      !.message = IF forceReplace THEN "updated" ELSE "written"]

\* a writer that rewrites the file on every run
maybeEnsureAlwaysWrites(r, forceReplace) == RulesRun(r, forceReplace, TRUE)

\* forceReplace || !existing.includes(CURSOR_PROMPT)
maybeEnsureCursorPromptInRules(r, forceReplace) ==
  RulesRun(r, forceReplace,
           forceReplace \/ ~(r.file.exists /\ "PROMPT" \in Range(r.file.text)))

EnsureRules ==
  /\ rules.runs < MaxRuns
  /\ \E forceReplace \in BOOLEAN :
       rules' = maybeEnsureCursorPromptInRules(rules, forceReplace)
  /\ UNCHANGED <<hostVars, mcpVars, keyVars, lifeVars, oauthVars, srch, cls, idc, ui>>

(***************************************************************************)
(* Search, execute and query classification: the idle values               *)
(***************************************************************************)
NoRequest ==
  [endpoint |-> "none", tool_ids |-> <<>>, query |-> <<>>, limit |-> 0,
   search_id |-> "ABSENT", session_id |-> "ABSENT", tool |-> "ABSENT"]

\* kind: data (HTTP 2xx) | http | network | timeout | setup (how axios rejected)
NoResponse ==
  [kind |-> "none", status |-> 0, results |-> "absent", search_id |-> "ABSENT",
   message |-> "ABSENT"]

IdleSearch ==
  [ids |-> 0, op |-> "none", query |-> <<>>, local |-> "ABSENT", request |-> NoRequest,
   posts |-> <<>>, prev |-> "ABSENT", resp |-> NoResponse]

IdleQuery == [query |-> <<>>, done |-> FALSE, isTool |-> FALSE]

IdleCodec == [token |-> <<>>, done |-> FALSE, claims |-> "none"]

\* the two webviews and their providers before anything was searched,
\* selected or executed
\*   searchButton, displayed          the search webview: its button, the
\*                                    search whose results it shows
\*   searches, searchInbox            the handleSearch calls; the messages
\*                                    posted to the search webview, unhandled
\*   lastExecute                      the last execute request built: whether
\*                                    its search_id was that of the results shown
\*   selectedTool, lastSentToolId     globalState 'selectedTool'; the closure
\*                                    variable of resolveWebviewView
\*   currentToolId, isExecuting, hasExecutionResult, executeButton
\*                                    the tool-specification webview
\*   executions, toolInbox            the handleExecute calls; the messages
\*                                    posted to that webview, unhandled
\*   selections                       number of tool selections made
\*   copy                             the last Copy API Key command: which
\*                                    registration ran, what it reported, and
\*                                    hasKey of getLoginState at that moment
IdleUi ==
  [searchButton |-> "enabled", displayed |-> "ABSENT", searches |-> <<>>,
   searchInbox |-> <<>>,
   lastExecute |-> [sent |-> FALSE, ofDisplayed |-> TRUE],
   selectedTool |-> "null", lastSentToolId |-> "null", currentToolId |-> "null",
   isExecuting |-> FALSE, hasExecutionResult |-> FALSE, executeButton |-> "none",
   executions |-> <<>>, toolInbox |-> <<>>, selections |-> 0,
   copy |-> [by |-> "none", result |-> "none", hasKey |-> FALSE]]

ToolIdle ==
  rules = IdleRules /\ srch = IdleSearch /\ cls = IdleQuery /\ idc = IdleCodec /\ ui = IdleUi

(***************************************************************************)
(* isToolId: a query is the sequence of its characters                     *)
(***************************************************************************)
MaxQueryLen == 8

\* the characters String.prototype.trim removes, of those in use
Whitespace == {" ", "\t"}

QueryChars == {"a", "."} \cup Whitespace

\* String.prototype.trim
RECURSIVE TrimChars(_)
TrimChars(q) ==
  IF q = <<>> THEN q
  ELSE IF Head(q) \in Whitespace THEN TrimChars(Tail(q))
  ELSE IF q[Len(q)] \in Whitespace THEN TrimChars(SubSeq(q, 1, Len(q) - 1))
  ELSE q

\* String.prototype.split('.'): ''.split('.') is ['']
RECURSIVE Split(_)
Split(q) ==
  IF q = <<>> THEN << <<>> >>
  ELSE LET rest == Split(Tail(q))
       IN IF Head(q) = "." THEN << <<>> >> \o rest
          ELSE << <<Head(q)>> \o rest[1] >> \o Tail(rest)

isToolId(query) ==
  LET trimmed == TrimChars(query)
      parts == Split(trimmed)
  IN /\ query # <<>>
     /\ trimmed # <<>>
     /\ " " \notin Range(trimmed)
     /\ Len(parts) >= 4
     /\ \A i \in DOMAIN parts : parts[i] # <<>> /\ TrimChars(parts[i]) # <<>>

\* one classification
Classify ==
  /\ ~cls.done
  /\ cls' = [cls EXCEPT !.done = TRUE, !.isTool = isToolId(cls.query)]
  /\ UNCHANGED <<hostVars, mcpVars, keyVars, lifeVars, oauthVars, rules, srch, idc, ui>>

(***************************************************************************)
(* handleSearch and handleExecute                                          *)
(***************************************************************************)
MaxSearches == 2

generateSearchId(draw) == HostSuffix(isCursorApp) \o "-" \o ToString(draw)

SearchQueries ==
  {<<>>, <<" ", "\t">>, <<"a">>, <<"a", " ", "a">>,
   <<"a", ".", "a", ".", "a", ".", "a">>, <<" ", "a", ".", "a", ".", "a", ".", "a">>}

\* what the server, or axios, answers to a dispatched search
SearchResponses ==
  {[NoResponse EXCEPT !.kind = "data", !.status = 200, !.results = r,
                      !.search_id = i, !.message = m] :
     r \in {"array", "absent", "other"}, i \in {"ABSENT", "", "srv-1"},
     m \in {"ABSENT", "quota exceeded"}}
  \cup
  {[NoResponse EXCEPT !.kind = "http", !.status = c, !.message = m] :
     c \in {400, 401, 403, 404, 500, 503}, m \in {"ABSENT", "bad request"}}
  \cup
  {[NoResponse EXCEPT !.kind = "network", !.message = "Network Error"],
   [NoResponse EXCEPT !.kind = "timeout", !.message = "timeout of 30000ms exceeded"],
   [NoResponse EXCEPT !.kind = "setup", !.message = "Invalid URL"]}

\* the preconditions without the session check
SearchPreconditionNoSession(query, apiKey, sessionId) ==
  IF query = <<>> \/ TrimChars(query) = <<>> THEN "Please enter a search query."
  ELSE IF ~Truthy(apiKey) THEN "Please sign in first to search tools."
  ELSE "ok"

\* the early returns of handleSearch: the message posted, or ok
SearchPrecondition(query, apiKey, sessionId) ==
  IF query = <<>> \/ TrimChars(query) = <<>> THEN "Please enter a search query."
  ELSE IF ~Truthy(apiKey) THEN "Please sign in first to search tools."
  ELSE IF ~Truthy(sessionId) THEN "Session not initialized. Please reload the extension."
  ELSE "ok"

\* the body of the axios.post the query is routed to
SearchRequest(trimmedQuery, searchId, sessionId) ==
  IF isToolId(trimmedQuery)
  THEN [NoRequest EXCEPT !.endpoint = "/api/v1/tools/by-ids",
                         !.tool_ids = <<trimmedQuery>>, !.session_id = sessionId]
  ELSE [NoRequest EXCEPT !.endpoint = "/api/v1/search", !.query = trimmedQuery,
                         !.limit = 10, !.search_id = searchId, !.session_id = sessionId]

\* the error axios rejects with: err.response, err.request, err.code, err.message
AxiosError(resp) ==
  [response |-> resp.kind = "http", status |-> resp.status, data |-> resp.message,
   request |-> resp.kind \in {"http", "network", "timeout"},
   code |-> IF resp.kind = "timeout" THEN "ECONNABORTED"
            ELSE IF resp.kind = "network" THEN "ERR_NETWORK"
            ELSE IF resp.kind = "http" THEN "ERR_BAD_REQUEST" ELSE "ABSENT",
   timeoutText |-> resp.kind = "timeout", message |-> resp.message]

\* throw new Error(message)
PlainError(message) ==
  [response |-> FALSE, status |-> 0, data |-> "ABSENT", request |-> FALSE,
   code |-> "ABSENT", timeoutText |-> FALSE, message |-> message]

\* the catch block of handleSearch: the message shown for an error
ErrorMessage(err) ==
  IF err.response
  THEN IF err.status = 401 THEN "Authentication failed. Please sign in again."
       ELSE IF err.status = 403 THEN "Access denied. Please check your permissions."
       ELSE IF err.status = 404
         THEN "Search endpoint not found. Please check the backend URL configuration."
       ELSE IF err.status >= 500 THEN "Server error. Please try again later."
       ELSE OrElse(err.data, "Request failed with status " \o ToString(err.status))
  ELSE IF err.request THEN "Network error. Please check your internet connection."
  ELSE IF err.code = "ECONNABORTED" \/ err.timeoutText
    THEN "Request timeout. Please try again."
  ELSE IF Truthy(err.message) THEN err.message
  ELSE "Search failed"

\* a validation that accepts every response body
ValidSearchDataAny(resp) == TRUE

\* searchData && Array.isArray(searchData.results)
ValidSearchData(resp) == resp.results = "array"

\* an id store that ignores what the server returned
StoredSearchIdLocal(resp, searchId) == searchId

\* searchData.search_id || searchId
StoredSearchId(resp, searchId) == OrElse(resp.search_id, searchId)

Post(type, text) == [type |-> type, text |-> text]

\* [request, posts, last]: the request sent, the messages posted to the
\* webview, lastSearchId afterwards; updateOk: globalState.update resolves
handleSearch(query, apiKey, sessionId, searchId, last, resp, updateOk) ==
  LET pre == SearchPrecondition(query, apiKey, sessionId)
      failed(err) ==
        <<Post("searchProgress", "starting"), Post("searchError", ErrorMessage(err)),
          Post("searchProgress", "done")>>
      sent == [request |-> SearchRequest(TrimChars(query), searchId, sessionId),
               posts |-> <<>>, last |-> last]
  IN IF pre # "ok"
     THEN [request |-> NoRequest, posts |-> <<Post("searchError", pre)>>, last |-> last]
     ELSE IF resp.kind # "data"
     THEN [sent EXCEPT !.posts = failed(AxiosError(resp))]
     ELSE IF ~ValidSearchData(resp)
     THEN [sent EXCEPT !.posts =
             failed(PlainError(OrElse(resp.message, "Invalid search response format")))]
     ELSE IF ~updateOk
     THEN [sent EXCEPT !.posts = failed(PlainError("update failed"))]
     ELSE [sent EXCEPT
             !.posts = <<Post("searchProgress", "starting"), Post("searchSuccess", "data"),
                         Post("searchProgress", "done")>>,
             !.last = StoredSearchId(resp, searchId)]

HandleSearch ==
  /\ srch.ids < MaxSearches
  /\ \E query \in SearchQueries, resp \in SearchResponses, updateOk \in BOOLEAN :
       LET searchId == generateSearchId(srch.ids + 1)
           r == handleSearch(query, secrets[ApiKeySlot], gstate[SessionSlot], searchId,
                             gstate[LastSearchSlot], resp, updateOk)
           dispatched == r.request # NoRequest
       IN /\ srch' = [ids |-> IF dispatched THEN srch.ids + 1 ELSE srch.ids,
                      op |-> "search", query |-> query,
                      local |-> IF dispatched THEN searchId ELSE "ABSENT",
                      request |-> r.request, posts |-> r.posts,
                      prev |-> gstate[LastSearchSlot],
                      resp |-> IF dispatched THEN resp ELSE NoResponse]
          /\ gstate' = [gstate EXCEPT ![LastSearchSlot] = r.last]
  /\ UNCHANGED <<hostVars, mcpVars, keyVars, oauthVars, rules, cls, idc, ui, secrets, flow, lo,
                 shown, lastState, activated>>

\* handleExecute(toolId, parameters); ok: the execute call resolved
HandleExecute ==
  /\ \E ok \in BOOLEAN :
       LET apiKey == secrets[ApiKeySlot]
           sessionId == gstate[SessionSlot]
           searchId == gstate[LastSearchSlot]
           pre == IF ~Truthy(apiKey) THEN "Please sign in first to execute tools."
                  ELSE IF ~Truthy(sessionId)
                    THEN "Session not initialized. Please reload the extension."
                  ELSE "ok"
           requestBody ==
             [NoRequest EXCEPT !.endpoint = "/rpc/v1/auth/tools/execute",
                               !.tool = "a.a.a.a", !.session_id = sessionId,
                               !.search_id = IF Truthy(searchId) THEN searchId ELSE "ABSENT"]
       IN srch' = [srch EXCEPT
                     !.op = "execute", !.query = <<>>, !.local = "ABSENT",
                     !.resp = NoResponse, !.prev = searchId,
                     !.request = IF pre = "ok" THEN requestBody ELSE NoRequest,
                     !.posts = IF pre # "ok" THEN <<Post("executeError", pre)>>
                               ELSE <<Post("executeProgress", "starting"),
                                      Post(IF ok THEN "executeSuccess" ELSE "executeError",
                                           "result"),
                                      Post("executeProgress", "done")>>]
  /\ UNCHANGED <<hostVars, mcpVars, keyVars, lifeVars, oauthVars, rules, cls, idc, ui>>

(***************************************************************************)
(* Spec: activation, password login, logout and the Home view, one         *)
(* handler at a time                                                       *)
(***************************************************************************)
UserDoc ==
  Doc("obj", "other", "dark", "obj", "srv", "obj", "node", "[custom]", "/tmp",
      "obj", [NoEnv EXCEPT !["FOO"] = "bar", !["QVERIS_API_KEY"] = " KF "])

LifeDocs == {MissingFile, Flat("arr", "other"), UserDoc}

McpIdle ==
  /\ mcpKey = "K1"
  /\ mcpCalls = 0
  /\ mcpBefore = [p \in Paths |-> MissingFile]
  /\ mcpAfterFirst = [p \in Paths |-> MissingFile]
  /\ mcpReport = [ok |-> {}, failed |-> {}]

Init ==
  /\ isCursor \in BOOLEAN
  /\ pkgVersion = "1.0.0"
  /\ hasWorkspace \in BOOLEAN
  /\ unwritable \in {{}, Paths}
  /\ files \in {f \in [Paths -> LifeDocs] : f["ws"] # Flat("arr", "other")}
  /\ McpIdle
  /\ KeyIdle
  /\ ToolIdle
  /\ LifeIdle
  /\ OAuthIdle

Login(p) ==
  \/ Quiescent /\ LoginInvalid(p)
  \/ Quiescent /\ LoginRequest(p)
  \/ StoreApiKey(p)
  \/ StoreAccessToken(p)
  \/ StoreEmail(p)
  \/ UpdatePlainEmail(p)
  \/ Reconcile(p)
  \/ NotifyLogin(p)
  \/ LoginReturn(p)

Next ==
  \/ Activate
  \/ Deactivate
  \/ Quiescent /\ EmitStoredState
  \/ \E p \in Procs : Login(p)
  \/ Quiescent /\ LogoutStart
  \/ DeleteApiKey
  \/ DeleteAccessToken
  \/ DeleteEmail
  \/ ClearPlainEmail
  \/ NotifyLogout
  \/ LogoutReturn

Spec == Init /\ [][Next]_vars

(***************************************************************************)
(* SpecMcp: the writer called repeatedly with one key on one installation  *)
(***************************************************************************)
MaxCalls == 2

OtherPathDoc ==
  Doc("obj", "other", "dark", "obj", "srv", "obj", "npx", "[@qverisai/sdk]",
      "ABSENT", "obj", [NoEnv EXCEPT !["QVERIS_API_KEY"] = "K2"])

InitMcp ==
  /\ isCursor \in BOOLEAN
  /\ pkgVersion = "1.0.0"
  /\ hasWorkspace \in BOOLEAN
  /\ unwritable \in {{}, Paths}
  /\ \E d \in AllDocs :
       files = [p \in Paths |-> IF p \in Range(getMcpConfigPaths) THEN d ELSE OtherPathDoc]
  /\ mcpKey \in KeyValues
  /\ mcpCalls = 0
  /\ mcpBefore = files
  /\ mcpAfterFirst = files
  /\ mcpReport = [ok |-> {}, failed |-> {}]
  /\ KeyIdle
  /\ ToolIdle
  /\ LifeIdle
  /\ OAuthIdle

EnsureMcpConfig ==
  /\ mcpCalls < MaxCalls
  /\ mcpCalls' = mcpCalls + 1
  /\ files' = FilesAfterEnsure(files, unwritable, mcpKey)
  /\ mcpReport' = ReportAfterEnsure(files, unwritable, mcpKey)
  /\ mcpAfterFirst' = IF mcpCalls = 0 THEN files' ELSE mcpAfterFirst
  /\ UNCHANGED <<isCursor, hasWorkspace, unwritable, pkgVersion, mcpKey, mcpBefore, keyVars, toolVars, lifeVars, oauthVars>>

NextMcp == EnsureMcpConfig

SpecMcp == InitMcp /\ [][NextMcp]_vars

(***************************************************************************)
(* SpecKey: one key resolution against every combination of responses      *)
(***************************************************************************)
InitKey ==
  /\ isCursor = FALSE
  /\ pkgVersion = "1.0.0"
  /\ hasWorkspace = FALSE
  /\ files = [p \in Paths |-> MissingFile]
  /\ unwritable = {}
  /\ McpIdle
  /\ LifeIdle
  /\ OAuthIdle
  /\ ToolIdle
  /\ keyIn \in [list : ListResponses, full : KeyResponses, create : KeyResponses,
                apiKeyName : NameSettings, now : 1..MaxClock]
  /\ keyOut = NoKeyOut

ResolveKey ==
  /\ ~keyOut.done
  /\ LET r == obtainApiKey(keyIn.list, keyIn.full, keyIn.create, keyIn.apiKeyName, keyIn.now)
     IN keyOut' = [done |-> TRUE, ok |-> r.ok, key |-> r.key, log |-> r.log]
  /\ UNCHANGED <<hostVars, mcpVars, keyIn, toolVars, lifeVars, oauthVars>>

NextKey == ResolveKey

SpecKey == InitKey /\ [][NextKey]_vars

(***************************************************************************)
(* Claims on the MCP config writer (SpecMcp)                               *)
(***************************************************************************)
McpTargets == Range(getMcpConfigPaths)

\* C1: on an existing JSON object document a successful write preserves every
\* other top-level key, every other server entry and every other variable of
\* qveris.env, and overwrites no value but env.QVERIS_API_KEY: a field the
\* qveris entry already holds is still there, unchanged.
C1_OnlyApiKeyOverwritten ==
  \A p \in McpTargets :
    (mcpCalls = 1 /\ mcpBefore[p].kind = "obj" /\ p \in mcpReport.ok) =>
      LET b == mcpBefore[p]
          a == files[p]
      IN /\ a.top = b.top
         /\ (b.ms = "obj" => a.other = b.other)
         /\ (b.ms = "obj" /\ b.q = "obj" /\ b.envk = "obj" =>
               \A k \in EnvKeys \ {"QVERIS_API_KEY"} : a.env[k] = b.env[k])
         /\ (b.ms = "obj" /\ b.q = "obj" =>
               \A f \in {"command", "args", "extra"} :
                 b[f] # "ABSENT" => a[f] = b[f])

\* C2: for every initial file content and every key, the files after the
\* second call with the same key equal the files after the first call.
C2_Idempotent ==
  mcpCalls = 2 => files = mcpAfterFirst

(***************************************************************************)
(* Claims on the API key resolver (SpecKey)                                *)
(***************************************************************************)
LastRequest == keyOut.log[Len(keyOut.log)]

\* listing failed, or listed nothing, or the first key's full value was not obtained
C5_Fallback == ~ListHasKey(keyIn.list) \/ ~HasKey(keyIn.full)

\* C5: in every fallback case the resolver issues a create request named
\* <prefix>-<timestamp> and returns the created key's value; it fails only
\* when the create step fails as well.
C5_FallbackCreates ==
  keyOut.done =>
    /\ C5_Fallback =>
         /\ LastRequest.op = "create"
         /\ LastRequest.arg =
              (IF keyIn.apiKeyName = "" THEN "vscode" ELSE keyIn.apiKeyName)
                \o "-" \o ToString(keyIn.now)
         /\ HasKey(keyIn.create) => keyOut.ok /\ keyOut.key = keyIn.create.api_key
    /\ ~keyOut.ok => C5_Fallback /\ ~HasKey(keyIn.create)

C5_Witness ==
  /\ keyOut.done
  /\ keyIn.list.throws
  /\ keyOut.ok
  /\ keyOut.key = "K2"
  /\ LastRequest = [op |-> "create", arg |-> "ci-2"]

(***************************************************************************)
(* Claims on login, logout, activation and the Home view (Spec)            *)
(***************************************************************************)
SlotPresent(slot) == secrets[slot] # "ABSENT"

LoginEnded(p, outcome) == flow[p].pc = "done" /\ flow[p].outcome = outcome

\* login returned token T1, the profile email u@b.com, the key list was empty
\* and the create call returned K1
C3_Scenario(p) ==
  /\ flow[p].res.ok
  /\ flow[p].res.token = "T1"
  /\ flow[p].res.email = "u@b.com"
  /\ flow[p].res.listed = "empty"
  /\ flow[p].res.apiKey = "K1"
  /\ flow[p].res.log = <<"login", "userinfo", "list", "create">>

\* C3: a password login in that scenario that ends successfully leaves
\* {apiKey: K, accessToken: T, email: E} in the namespaced slots and every
\* config target it reports as updated holding env.QVERIS_API_KEY = K.
C3_EndToEnd ==
  \A p \in Procs :
    (LoginEnded(p, "ok") /\ C3_Scenario(p)) =>
      /\ secrets[ApiKeySlot] = "K1"
      /\ secrets[TokenSlot] = "T1"
      /\ secrets[EmailSlot] = "u@b.com"
      /\ \A path \in flow[p].report.ok : ConfigKey(files[path]) = "K1"

\* C4: a login attempt that ends in failure, at whichever step, has written
\* none of the three credential slots.
C4_AllOrNothing ==
  \A p \in Procs :
    LoginEnded(p, "failed") => flow[p].written \cap {ApiKeySlot, TokenSlot, EmailSlot} = {}

\* C6: whatever the list / fetch-full / create responses, a key resolution
\* that returns yields a non-empty key, so the apiKey slot a login has
\* written is never empty.
C6_KeyNeverEmpty ==
  \A p \in Procs :
    /\ flow[p].res.ok => flow[p].res.apiKey \notin {"", "ABSENT"}
    /\ ApiKeySlot \in flow[p].written => secrets[ApiKeySlot] \notin {"", "ABSENT"}

C6_Witness ==
  \E p \in Procs :
    /\ LoginEnded(p, "ok")
    /\ ApiKeySlot \in flow[p].written
    /\ secrets[ApiKeySlot] = "K1"
    /\ flow[p].res.log = <<"login", "userinfo", "list", "get-full-key", "create">>

\* C7: whenever no operation is in flight, the three slots apiKey,
\* accessToken and email are all present or all absent.
C7_AllOrNone ==
  Quiescent =>
    \/ SlotPresent(ApiKeySlot) /\ SlotPresent(TokenSlot) /\ SlotPresent(EmailSlot)
    \/ ~SlotPresent(ApiKeySlot) /\ ~SlotPresent(TokenSlot) /\ ~SlotPresent(EmailSlot)

\* a loginState message was handled in this step
StateShown == lastState' # lastState \/ shown' # shown

HasKeyExact == lastState'.hasKey = (secrets'[ApiKeySlot] \notin {"ABSENT", ""})

InitOAuth ==
  /\ isCursor \in BOOLEAN
  /\ pkgVersion = "1.0.0"
  /\ hasWorkspace \in BOOLEAN
  /\ unwritable = {}
  /\ files \in {f \in [Paths -> LifeDocs] : f["ws"] = MissingFile}
  /\ McpIdle
  /\ KeyIdle
  /\ ToolIdle
  /\ LifeIdle
  /\ OAuthIdle

NextOAuth ==
  \/ Activate
  \/ OAuthInitiate
  \/ OAuthCallback
  \/ OAuthReturn

SpecOAuth == InitOAuth /\ [][NextOAuth]_vars

(***************************************************************************)
(* Claims on the OAuth handshake (SpecOAuth)                               *)
(***************************************************************************)
CallbackHandled == cb.pc = "done" /\ cb.uri.match

\* C9: once a callback has been handled, successfully or not, no nonce is
\* persisted; a callback URI handled before fails when it is replayed, with
\* a state mismatch when it carries state and token, and stores nothing.
C9_SingleUse ==
  CallbackHandled =>
    /\ gstate[OAuthStateSlot] = "ABSENT"
    /\ cb.replay =>
         /\ cb.outcome = (IF HasParams(cb.uri) THEN "mismatch" ELSE "missing")
         /\ ~cb.resolving
         /\ secrets = cb.before

C9_Witness ==
  /\ CallbackHandled
  /\ cb.replay
  /\ cb.uri.state = generateOAuthState(1)
  /\ cb.uri.token = "T1"
  /\ cb.nonce = generateOAuthState(2)
  /\ secrets[ApiKeySlot] = "K1"
  /\ cb.outcome = "mismatch"

\* the received state is absent, or no nonce is persisted, or the two differ
C10_BadState ==
  \/ cb.uri.state = "ABSENT"
  \/ cb.nonce = "ABSENT"
  \/ cb.uri.state # cb.nonce

\* C10: a callback whose state is absent, or differs from the persisted
\* nonce, or that arrives when no nonce is persisted, fails closed: no key
\* resolution is started and no credential slot is written.
C10_FailsClosed ==
  (cb.pc = "done" /\ C10_BadState) =>
    /\ cb.outcome \in {"ignored", "missing", "mismatch"}
    /\ ~cb.resolving
    /\ secrets = cb.before

C10_Witness ==
  /\ CallbackHandled
  /\ cb.uri.state = "forged"
  /\ cb.uri.token = "T1"
  /\ cb.nonce = generateOAuthState(1)
  /\ cb.outcome = "mismatch"
  /\ secrets[ApiKeySlot] = "ABSENT"

(***************************************************************************)
(* Claims on the session identifier and the reconciliation targets         *)
(***************************************************************************)
\* C11: once activation has completed a session id is stored under the
\* namespaced sessionId key.
C11_SessionPresent ==
  activated => Truthy(gstate[SessionSlot])

\* C12: the paths a reconciliation run reports on are the home path, always,
\* plus the workspace path exactly when the host is not Cursor and a
\* workspace folder is open.
C12_Targets ==
  mcpCalls >= 1 =>
    mcpReport.ok \cup mcpReport.failed =
      {"home"} \cup (IF ~isCursorApp /\ hasWorkspace THEN {"ws"} ELSE {})

InitRules ==
  /\ isCursor \in BOOLEAN
  /\ pkgVersion = "1.0.0"
  /\ hasWorkspace \in BOOLEAN
  /\ files = [p \in Paths |-> MissingFile]
  /\ unwritable = {}
  /\ McpIdle
  /\ KeyIdle
  /\ LifeIdle
  /\ OAuthIdle
  /\ srch = IdleSearch
  /\ ui = IdleUi
  /\ idc = IdleCodec
  /\ cls = IdleQuery
  /\ \E exists \in BOOLEAN, text \in RuleTexts, canWrite \in BOOLEAN, copied \in BOOLEAN :
       /\ ~exists => text = <<>>
       /\ rules = [IdleRules EXCEPT !.file = [exists |-> exists, text |-> text],
                                    !.before = [exists |-> exists, text |-> text],
                                    !.canWrite = canWrite, !.copied = copied]

SpecRules == InitRules /\ [][EnsureRules]_vars

\* C14: a run without forceReplace on a rules file that holds the prompt
\* writes nothing: the file is afterwards what it was before.
C14_NoOp ==
  (rules.runs >= 1 /\ ~rules.force /\ rules.before.exists
     /\ "PROMPT" \in Range(rules.before.text)) =>
    ~rules.wrote /\ rules.file = rules.before

C14_Witness ==
  /\ isCursorApp /\ hasWorkspace /\ rules.canWrite
  /\ rules.runs = 1 /\ ~rules.force
  /\ rules.before.text = <<"notes", "HEADER", "PROMPT", "more">>
  /\ rules.file = rules.before
  /\ rules.copied

\* C15: when a run writes, every part of the earlier text that the writer
\* did not generate is still in the new text.
C15_ProsePreserved ==
  rules.wrote =>
    \A part \in Range(rules.before.text) \ {"HEADER", "PROMPT"} :
      part \in Range(rules.file.text)

(***************************************************************************)
(* SpecQuery: isToolId on every query of up to MaxQueryLen characters      *)
(***************************************************************************)
InitQuery ==
  /\ isCursor = FALSE
  /\ pkgVersion = "1.0.0"
  /\ hasWorkspace = FALSE
  /\ files = [p \in Paths |-> MissingFile]
  /\ unwritable = {}
  /\ McpIdle
  /\ KeyIdle
  /\ LifeIdle
  /\ OAuthIdle
  /\ rules = IdleRules
  /\ srch = IdleSearch
  /\ ui = IdleUi
  /\ idc = IdleCodec
  /\ \E n \in 0..MaxQueryLen : \E q \in [1..n -> QueryChars] :
       cls = [IdleQuery EXCEPT !.query = q]

SpecQuery == InitQuery /\ [][Classify]_vars

HasWhitespace(q) == Range(q) \cap Whitespace # {}

NonEmptySegments(q) == {i \in DOMAIN Split(q) : Split(q)[i] # <<>>}

\* C16: a query that contains whitespace, or has fewer than 4 non-empty
\* dot-separated segments, is free text; a query without whitespace whose
\* segments are four or more, all non-empty, is a tool identifier.
C16_Classification ==
  cls.done =>
    /\ (HasWhitespace(cls.query) \/ Cardinality(NonEmptySegments(cls.query)) < 4)
         => ~cls.isTool
    /\ (~HasWhitespace(cls.query) /\ Len(Split(cls.query)) >= 4
          /\ Cardinality(NonEmptySegments(cls.query)) = Len(Split(cls.query)))
         => cls.isTool

(***************************************************************************)
(* SpecSearch: searches and executions on an installation with or without  *)
(* a stored key, session id and earlier search id                          *)
(***************************************************************************)
InitSearch ==
  /\ isCursor \in BOOLEAN
  /\ pkgVersion = "1.0.0"
  /\ hasWorkspace = FALSE
  /\ files = [p \in Paths |-> MissingFile]
  /\ unwritable = {}
  /\ McpIdle
  /\ KeyIdle
  /\ OAuthIdle
  /\ ToolIdle
  /\ flow = [p \in Procs |-> IdleFlow]
  /\ lo = IdleLogout
  /\ shown = "loggedOut"
  /\ lastState = NoLoginState
  /\ activated = TRUE
  /\ \E apiKey \in {"ABSENT", "K1"}, sessionId \in {"ABSENT", "sess-1"},
        searchId \in {"ABSENT", "prev-1"} :
       /\ secrets = [[k \in SecretKeys |-> "ABSENT"] EXCEPT ![ApiKeySlot] = apiKey]
       /\ gstate = [[k \in GlobalKeys |-> "ABSENT"] EXCEPT
                      ![SessionSlot] = sessionId, ![LastSearchSlot] = searchId]

NextSearch == HandleSearch \/ HandleExecute

SpecSearch == InitSearch /\ [][NextSearch]_vars

Searched == srch.op = "search"

Dispatched == srch.request # NoRequest

BlankQuery == TrimChars(srch.query) = <<>>

\* C17: a search with a blank query, without a stored key or without a stored
\* session id sends no request and posts one searchError (the reload message
\* when it is the session id that is missing); a search sends a request
\* exactly when all three are there.
C17_Preconditions ==
  Searched =>
    /\ Dispatched <=>
         (~BlankQuery /\ Truthy(secrets[ApiKeySlot]) /\ Truthy(gstate[SessionSlot]))
    /\ ~Dispatched =>
         /\ Len(srch.posts) = 1
         /\ srch.posts[1].type = "searchError"
         /\ (~BlankQuery /\ Truthy(secrets[ApiKeySlot])) =>
              srch.posts[1].text = "Session not initialized. Please reload the extension."

C17_Witness ==
  /\ Searched
  /\ srch.query = <<"a", " ", "a">>
  /\ secrets[ApiKeySlot] = "K1"
  /\ gstate[SessionSlot] = "ABSENT"
  /\ srch.request = NoRequest
  /\ srch.posts =
       <<Post("searchError", "Session not initialized. Please reload the extension.")>>

\* C18: a dispatched tool-identifier query goes to the by-ids endpoint with
\* the one-element tool_ids list, a free-text query to the search endpoint
\* with a result limit, and both carry the search_id generated for this call
\* and the stored session id.
C18_Routing ==
  (Searched /\ Dispatched) =>
    /\ srch.request.session_id = gstate[SessionSlot]
    /\ srch.request.search_id = generateSearchId(srch.ids)
    /\ IF isToolId(TrimChars(srch.query))
       THEN /\ srch.request.endpoint = "/api/v1/tools/by-ids"
            /\ srch.request.tool_ids = <<TrimChars(srch.query)>>
       ELSE /\ srch.request.endpoint = "/api/v1/search"
            /\ srch.request.query = TrimChars(srch.query)
            /\ srch.request.limit > 0

SearchSucceeded ==
  /\ Searched
  /\ Len(srch.posts) = 3
  /\ srch.posts[2].type = "searchSuccess"

\* C19: after a successful search lastSearchId is the search_id the server
\* returned when it returned a non-empty one, else the id generated for the
\* call; after a failed search it is what it was; an execution sends the
\* persisted lastSearchId as search_id, leaves the field out when none is
\* persisted, and sends the session id.
C19_LastSearchId ==
  /\ SearchSucceeded =>
       gstate[LastSearchSlot] =
         (IF srch.resp.search_id \notin {"ABSENT", ""} THEN srch.resp.search_id
          ELSE srch.local)
  /\ (Searched /\ ~SearchSucceeded) => gstate[LastSearchSlot] = srch.prev
  /\ (srch.op = "execute" /\ Dispatched) =>
       /\ srch.request.search_id = gstate[LastSearchSlot]
       /\ srch.request.session_id = gstate[SessionSlot]

C19_Witness ==
  /\ srch.op = "execute"
  /\ srch.ids = 2
  /\ srch.request.search_id = "srv-1"
  /\ srch.request.session_id = "sess-1"
  /\ gstate[LastSearchSlot] = "srv-1"

\* C20: a search that fails with 401, 403, 404, a 5xx status, no response,
\* or a timeout posts the message of that class; a timeout posts the timeout
\* message.
C20_ErrorClasses ==
  (Searched /\ Dispatched /\ srch.resp.kind \in {"http", "network", "timeout"}
     /\ srch.resp.status # 400) =>
    srch.posts[2] =
      Post("searchError",
           IF srch.resp.kind = "timeout" THEN "Request timeout. Please try again."
           ELSE IF srch.resp.kind = "network"
             THEN "Network error. Please check your internet connection."
           ELSE IF srch.resp.status = 401
             THEN "Authentication failed. Please sign in again."
           ELSE IF srch.resp.status = 403
             THEN "Access denied. Please check your permissions."
           ELSE IF srch.resp.status = 404
             THEN "Search endpoint not found. Please check the backend URL configuration."
           ELSE "Server error. Please try again later.")

PostTypes == {srch.posts[i].type : i \in DOMAIN srch.posts}

InvalidResults ==
  Searched /\ Dispatched /\ srch.resp.kind = "data" /\ srch.resp.results # "array"

\* C21: a search whose response has no results field, or one that is not an
\* array, posts a searchError and no searchSuccess, and leaves lastSearchId as
\* it was before the call.
C21_InvalidResultsFail ==
  InvalidResults =>
    /\ "searchError" \in PostTypes
    /\ "searchSuccess" \notin PostTypes
    /\ gstate[LastSearchSlot] = srch.prev

C21_Witness ==
  /\ InvalidResults
  /\ srch.resp.results = "other"
  /\ srch.resp.search_id = "srv-1"
  /\ srch.prev = "prev-1"
  /\ gstate[LastSearchSlot] = "prev-1"
  /\ srch.posts[2] = Post("searchError", "Invalid search response format")

(***************************************************************************)
(* SpecLogin: one password login after another against one combination of  *)
(* responses, kept in keyIn                                                *)
(***************************************************************************)
InitLogin ==
  /\ isCursor = FALSE
  /\ pkgVersion = "1.0.0"
  /\ hasWorkspace = FALSE
  /\ files = [p \in Paths |-> MissingFile]
  /\ unwritable = {}
  /\ McpIdle
  /\ OAuthIdle
  /\ ToolIdle
  /\ secrets = [k \in SecretKeys |-> "ABSENT"]
  /\ gstate = [k \in GlobalKeys |-> "ABSENT"]
  /\ flow = [p \in Procs |-> IdleFlow]
  /\ lo = IdleLogout
  /\ shown = "loggedOut"
  /\ lastState = NoLoginState
  /\ activated = TRUE
  /\ keyIn \in [login : LoginCases, info : UserInfoResponses, list : ListCases,
                full : KeyCases("K1"), create : KeyCases("K1"),
                apiKeyName : NameSettings, now : 1..MaxClock]
  /\ keyOut = NoKeyOut

\* handleLogin up to the return (or throw) of performLogin, against keyIn
LoginAttempt(p) ==
  /\ activated
  /\ flow[p].pc = "idle"
  /\ LET r == performLogin(keyIn.login, keyIn.info, keyIn.list, keyIn.full,
                           keyIn.create, "a@b.com", keyIn.apiKeyName, keyIn.now)
     IN SetFlow(p, IF r.ok
                   THEN [Called("a@b.com", "x") EXCEPT !.pc = "storeKey", !.res = r]
                   ELSE Ended([Called("a@b.com", "x") EXCEPT !.res = r], "failed"))
  /\ LoginFrame

NextLogin ==
  \E p \in Procs :
    \/ LoginAttempt(p)
    \/ StoreApiKey(p)
    \/ StoreAccessToken(p)
    \/ StoreEmail(p)
    \/ UpdatePlainEmail(p)
    \/ Reconcile(p)
    \/ NotifyLogin(p)
    \/ LoginReturn(p)

SpecLogin == InitLogin /\ [][NextLogin]_vars

TokenObtained ==
  ~keyIn.login.throws /\ keyIn.login.status = "success"
    /\ LoginToken(keyIn.login) \notin {"ABSENT", ""}

KeyOps == {"list", "get-full-key", "create"}

CredentialSlots == {ApiKeySlot, TokenSlot, EmailSlot}

\* the call has passed the point where reconciliation starts
Reconciling(p) ==
  flow[p].pc = "notify" \/ flow[p].report # IdleFlow.report \/ LoginEnded(p, "ok")

\* C22: in the request log of a login the profile request follows the login
\* request and is there only if the token was obtained; the key requests
\* follow the profile request and are there only if the profile call
\* returned; a credential store is reached only with the resolved key in
\* hand; reconciliation is reached only after the three secret stores and
\* the plain-state update have completed.
C22_Sequential ==
  \A p \in Procs :
    LET log == flow[p].res.log
    IN /\ \A i \in DOMAIN log :
            /\ log[i] = "login" <=> i = 1
            /\ log[i] = "userinfo" <=> i = 2
            /\ log[i] \in KeyOps <=> i > 2
       /\ Len(log) >= 2 => TokenObtained
       /\ Len(log) >= 3 => ~keyIn.info.throws
       /\ (flow[p].pc \in {"storeKey", "storeToken", "storeEmail", "updateEmail"}
             \/ flow[p].written # {}) =>
            /\ flow[p].res.ok
            /\ Len(log) >= 3
            /\ flow[p].res.apiKey =
                 obtainApiKey(keyIn.list, keyIn.full, keyIn.create,
                              keyIn.apiKeyName, keyIn.now).key
       /\ ApiKeySlot \in flow[p].written \/ flow[p].pc # "storeToken"
       /\ TokenSlot \in flow[p].written \/ flow[p].pc # "storeEmail"
       /\ Reconciling(p) =>
            /\ flow[p].written = CredentialSlots
            /\ gstate[PlainEmailSlot] = flow[p].res.email

C22_Witness ==
  \E p \in Procs :
    /\ flow[p].pc = "notify"
    /\ flow[p].res.log = <<"login", "userinfo", "list", "get-full-key">>
    /\ flow[p].written = CredentialSlots
    /\ flow[p].report.ok # {}

(***************************************************************************)
(* SpecHosts: the extension run by turns in the two hosts over one shared   *)
(* secret store and one shared global state                                *)
(***************************************************************************)
HostLogins ==
  {[login |-> [throws |-> FALSE, status |-> "success", token |-> "T1",
               access_token |-> "ABSENT"],
    info |-> [throws |-> FALSE, email |-> e],
    list |-> [throws |-> FALSE, status |-> "success",
              api_keys |-> [isArray |-> TRUE, items |-> <<>>]],
    full |-> NoKeyIn.full,
    create |-> [throws |-> c, notFound |-> FALSE,
                status |-> IF c THEN "error" ELSE "success",
                api_key |-> IF c THEN "ABSENT" ELSE "K1"],
    apiKeyName |-> "", now |-> 1] : e \in {"ABSENT", "u@b.com"}, c \in BOOLEAN}

InitHosts ==
  /\ isCursor \in BOOLEAN
  /\ pkgVersion = "1.0.0"
  /\ hasWorkspace = FALSE
  /\ \E d \in {MissingFile, UserDoc} : files = [p \in Paths |-> d]
  /\ unwritable = {}
  /\ McpIdle
  /\ OAuthIdle
  /\ ToolIdle
  /\ LifeIdle
  /\ keyIn \in HostLogins
  /\ keyOut = NoKeyOut

\* the window is closed in one host and the extension started in the other
SwitchHost ==
  /\ ~activated
  /\ Quiescent
  /\ isCursor' = ~isCursor
  /\ shown' = "loggedOut"
  /\ lastState' = NoLoginState
  /\ UNCHANGED <<hasWorkspace, files, unwritable, pkgVersion, secrets, gstate, flow, lo,
                 activated,
                 mcpVars, keyVars, toolVars, oauthVars>>

NextHosts ==
  \/ SwitchHost
  \/ Activate
  \/ Deactivate
  \/ Quiescent /\ EmitStoredState
  \/ \E p \in Procs :
       \/ Quiescent /\ LoginAttempt(p)
       \/ StoreApiKey(p)
       \/ StoreAccessToken(p)
       \/ StoreEmail(p)
       \/ UpdatePlainEmail(p)
       \/ Reconcile(p)
       \/ NotifyLogin(p)
       \/ LoginReturn(p)
  \/ Quiescent /\ LogoutStart
  \/ DeleteApiKey
  \/ DeleteAccessToken
  \/ DeleteEmail
  \/ ClearPlainEmail
  \/ NotifyLogout
  \/ LogoutReturn

SpecHosts == InitHosts /\ [][NextHosts]_vars

HostToken(cursor) == IF cursor THEN "cursor" ELSE "vscode"

NamespacedBases ==
  SecretBases \cup {"qverisEmail", "oauthState", "sessionId", "lastSearchId",
                    "extensionVersion"}

\* the keys that belong to a host
KeysOfHost(cursor) == {b \o "." \o HostToken(cursor) : b \in NamespacedBases}

\* the login state the running host's own slots give
OwnLoginState ==
  LET own(b) == b \o "." \o HostToken(isCursor)
      secretEmail == secrets'[own("qverisEmail")]
      email == IF secretEmail \notin {"ABSENT", ""} THEN secretEmail
               ELSE gstate'[own("qverisEmail")]
  IN [email |-> IF email \in {"ABSENT", ""} THEN "null" ELSE email,
      hasKey |-> secrets'[own("qverisApiKey")] \notin {"ABSENT", ""}]

\* C23: the key the Cursor host builds for a base name is never a key the
\* VS Code host builds, and every handler running in one host writes and
\* deletes only that host's slots and reports a login state read from them
\* alone.
C23_NoCollision ==
  /\ [](/\ \A b1, b2 \in NamespacedBases :
            b1 \o "." \o HostSuffix(TRUE) # b2 \o "." \o HostSuffix(FALSE)
        /\ {ApiKeySlot, TokenSlot, EmailSlot, PlainEmailSlot, SessionSlot,
             LastSearchSlot, OAuthStateSlot, VersionSlot} \subseteq KeysOfHost(isCursor))
  /\ [][/\ \A k \in SecretKeys : secrets'[k] # secrets[k] => k \in KeysOfHost(isCursor)
        /\ \A k \in GlobalKeys : gstate'[k] # gstate[k] => k \in KeysOfHost(isCursor)
        /\ (lastState' # lastState /\ isCursor' = isCursor) =>
             lastState' = OwnLoginState]_vars

\* the Cursor host is logged out while the VS Code host's credentials stay
C23_Witness ==
  /\ isCursor
  /\ lo.pc = "done"
  /\ lo.outcome = "ok"
  /\ secrets["qverisApiKey.cursor"] = "ABSENT"
  /\ secrets["qverisApiKey.vscode"] = "K1"
  /\ secrets["qverisEmail.vscode"] = "u@b.com"
  /\ gstate["qverisEmail.vscode"] = "u@b.com"

(***************************************************************************)
(* SpecStartup: activate() as a whole, over restarts and version changes   *)
(***************************************************************************)
\* package.json unreadable or without a version, or one of two versions
PackageVersions == {"ABSENT", "1.0.0", "1.1.0"}

\* getExtensionVersion: packageJson.version, undefined when the read fails
getExtensionVersion == pkgVersion

\* a config file whose qveris entry holds k as QVERIS_API_KEY
KeyDoc(k) ==
  Doc("obj", "other", "ABSENT", "obj", "ABSENT", "obj", "npx", "[@qverisai/sdk]",
      "ABSENT", "obj", [NoEnv EXCEPT !["QVERIS_API_KEY"] = k])

\* what a config file may hold at startup: nothing, unparsable text, a blank
\* key, the number 0 as key, a key, a key with blanks around it
StartupDocs ==
  {MissingFile, Flat("invalid", "other"), KeyDoc("  "), KeyDoc("0"), KeyDoc("K2"), UserDoc}

InitStartup ==
  /\ isCursor \in BOOLEAN
  /\ hasWorkspace \in BOOLEAN
  /\ pkgVersion \in PackageVersions
  /\ files \in [Paths -> StartupDocs]
  /\ unwritable = {}
  /\ McpIdle
  /\ KeyIdle
  /\ OAuthIdle
  /\ srch = IdleSearch
  /\ ui = IdleUi
  /\ idc = IdleCodec
  /\ cls = IdleQuery
  /\ flow = [p \in Procs |-> IdleFlow]
  /\ lo = IdleLogout
  /\ shown = "loggedOut"
  /\ lastState = NoLoginState
  /\ activated = FALSE
  /\ \E apiKey \in {"ABSENT", "K1"}, stored \in {"ABSENT", "1.0.0"} :
       /\ secrets = [[k \in SecretKeys |-> "ABSENT"] EXCEPT ![ApiKeySlot] = apiKey]
       /\ gstate = [[k \in GlobalKeys |-> "ABSENT"] EXCEPT ![VersionSlot] = stored]
  /\ \E text \in {<<>>, <<"notes">>, <<"HEADER", "PROMPT">>} :
       rules = [IdleRules EXCEPT !.file = [exists |-> text # <<>>, text |-> text],
                                 !.before = [exists |-> text # <<>>, text |-> text]]

\* activate(): the version check, the version marker, then
\* ensureMcpConfigWithStoredKey and maybeEnsureCursorPromptInRules; updateOk,
\* storeOk: globalState.update and secrets.store resolve
Startup ==
  /\ ~activated
  /\ rules.runs < MaxRuns
  /\ activated' = TRUE
  /\ \E updateOk \in BOOLEAN, storeOk \in BOOLEAN :
       LET currentVersion == getExtensionVersion
           storedVersion == gstate[VersionSlot]
           isNewInstallOrUpdate == ~Truthy(storedVersion) \/ storedVersion # currentVersion
           apiKey == StoredOrDiscovered(secrets, files)
           discovered == ~Truthy(secrets[ApiKeySlot]) /\ Truthy(apiKey)
       IN IF Truthy(currentVersion) /\ ~updateOk
          THEN UNCHANGED <<gstate, secrets, files, rules, mcpCalls, mcpReport>>
          ELSE /\ gstate' = IF Truthy(currentVersion)
                            THEN [gstate EXCEPT ![VersionSlot] = currentVersion]
                            ELSE gstate
               /\ IF discovered /\ ~storeOk
                  THEN UNCHANGED <<secrets, files, rules, mcpCalls, mcpReport>>
                  ELSE /\ secrets' = IF discovered
                                     THEN [secrets EXCEPT ![ApiKeySlot] = apiKey]
                                     ELSE secrets
                       /\ files' = FilesAfterEnsure(files, unwritable, apiKey)
                       /\ mcpCalls' = IF Truthy(apiKey) THEN mcpCalls + 1 ELSE mcpCalls
                       /\ mcpReport' = ReportAfterEnsure(files, unwritable, apiKey)
                       /\ rules' = maybeEnsureCursorPromptInRules(rules, isNewInstallOrUpdate)
  /\ UNCHANGED <<isCursor, hasWorkspace, unwritable, pkgVersion, mcpKey, mcpBefore,
                 mcpAfterFirst, flow, lo, shown, lastState, keyVars, oauthVars, srch, cls, idc, ui>>

\* another version of the extension is installed while the window is closed
InstallVersion ==
  /\ ~activated
  /\ \E v \in PackageVersions \ {pkgVersion} : pkgVersion' = v
  /\ UNCHANGED <<isCursor, hasWorkspace, files, unwritable, mcpVars, keyVars, lifeVars,
                 oauthVars, toolVars>>

NextStartup == Startup \/ Deactivate \/ InstallVersion

SpecStartup == InitStartup /\ [][NextStartup]_vars

Activation == ~activated /\ activated'

\* C24: an activation runs the rules writer once and, given a key to write,
\* the MCP writer once; forceReplace is true exactly when no version is
\* stored or the stored version is not the running one; afterwards the
\* stored version is the running version, so an activation that finds the
\* running version stored runs with forceReplace false.
C24_ForceAtStartup ==
  [][Activation =>
       /\ rules'.runs = rules.runs + 1
       /\ Truthy(StoredOrDiscovered(secrets, files)) => mcpCalls' = mcpCalls + 1
       /\ rules'.force <=>
            (gstate[VersionSlot] = "ABSENT" \/ gstate[VersionSlot] # pkgVersion)
       /\ gstate'[VersionSlot] = pkgVersion
       /\ gstate[VersionSlot] = pkgVersion => ~rules'.force]_vars

(***************************************************************************)
(* Further claims on the API key resolver (SpecKey)                        *)
(***************************************************************************)
FirstListed == keyIn.list.api_keys.items[1]

\* C25: when the list holds a key, the second request fetches the full value
\* of the first listed key by its name, and when that fetch is rejected as
\* not found and the key carries an id, the third request fetches it by id.
C25_RetryById ==
  (keyOut.done /\ ListHasKey(keyIn.list)) =>
    /\ keyOut.log[2] = [op |-> "get-full-key", arg |-> FirstListed.name]
    /\ (keyIn.full.throws /\ keyIn.full.notFound /\ FirstListed.id # "ABSENT") =>
         keyOut.log[3] = [op |-> "get-full-key", arg |-> FirstListed.id]

Creates == {i \in DOMAIN keyOut.log : keyOut.log[i].op = "create"}

\* C26: a key resolution issues at most one create request, and none when
\* the fetch of the first listed key's full value returned a key.
C26_AtMostOneCreate ==
  keyOut.done =>
    /\ Cardinality(Creates) <= 1
    /\ (ListHasKey(keyIn.list) /\ HasKey(keyIn.full)) => Creates = {}
    /\ \A i \in DOMAIN keyOut.log : keyOut.log[i].op \in {"list", "get-full-key", "create"}

C26_Witness ==
  /\ keyOut.done
  /\ keyOut.ok
  /\ keyOut.key = "K1"
  /\ HasKey(keyIn.create)
  /\ keyIn.create.api_key = "K2"
  /\ Ops(keyOut.log) = <<"list", "get-full-key">>

(***************************************************************************)
(* Further claims on the MCP config writer (SpecMcp)                       *)
(***************************************************************************)
\* { mcpServers: { qveris: { command: npx, args: [@qverisai/sdk],
\*   env: { QVERIS_API_KEY: key } } } }, pretty-printed
DefaultDocument(key) ==
  Doc("obj", "pretty", "ABSENT", "obj", "ABSENT", "obj", "npx", "[@qverisai/sdk]",
      "ABSENT", "obj", [NoEnv EXCEPT !["QVERIS_API_KEY"] = key])

NotAnObjectDocument == {"missing", "empty", "invalid", "null", "prim", "arr"}

\* C27: on every writable target whose content is missing, empty, unparsable
\* or a JSON value that is not an object, the first write succeeds and leaves
\* the document an empty one gives: the default qveris entry with the key.
C27_InvalidAsEmpty ==
  \A p \in McpTargets :
    (mcpCalls = 1 /\ mcpBefore[p].kind \in NotAnObjectDocument /\ p \notin unwritable) =>
      /\ p \in mcpReport.ok
      /\ files[p] = DefaultDocument(mcpKey)

\* C28: after a successful write on a document with a qveris entry, command
\* and args are the defaults when the entry had none and are otherwise the
\* values the entry had, whatever they were.
C28_DefaultsOnlyIfAbsent ==
  \A p \in McpTargets :
    (mcpCalls = 1 /\ p \in mcpReport.ok /\ mcpBefore[p].kind = "obj"
       /\ mcpBefore[p].ms = "obj" /\ mcpBefore[p].q = "obj") =>
      /\ files[p].command =
           (IF mcpBefore[p].command = "ABSENT" THEN "npx" ELSE mcpBefore[p].command)
      /\ files[p].args =
           (IF mcpBefore[p].args = "ABSENT" THEN "[@qverisai/sdk]" ELSE mcpBefore[p].args)

(***************************************************************************)
(* Further claims on login (Spec)                                          *)
(***************************************************************************)
EmptyInput(f) == f.email = "" \/ f.password = ""

\* C29: a handleLogin call with an empty email or an empty password returns
\* at once with the validation message: it has issued no request, written no
\* slot and reconciled no config file, and the step that handles it leaves
\* the secret store, the global state and the config files as they were.
C29_FailFast ==
  /\ [](\A p \in Procs :
          (flow[p].pc # "idle" /\ EmptyInput(flow[p])) =>
            /\ LoginEnded(p, "invalid")
            /\ flow[p].res.log = <<>>
            /\ flow[p].written = {}
            /\ flow[p].report = IdleFlow.report)
  /\ [][\A p \in Procs :
          (flow[p].pc = "idle" /\ flow'[p].pc # "idle" /\ EmptyInput(flow'[p])) =>
            UNCHANGED <<secrets, gstate, files>>]_vars

\* an empty password typed while a key from an earlier login is stored
C29_Witness ==
  \E p \in Procs :
    /\ LoginEnded(p, "invalid")
    /\ flow[p].email = "a@b.com"
    /\ flow[p].password = ""
    /\ secrets[ApiKeySlot] = "K1"
    /\ secrets[TokenSlot] = "T1"

(***************************************************************************)
(* Identity codec: decodeClaims                                            *)
(*   a token is the sequence of its characters; the middle segment is      *)
(*   base64url text, decoded to bytes, and the bytes are parsed as JSON    *)
(***************************************************************************)
MaxTokenLen == 6

\* e30 is the base64 text of {}, M3 that of 3; ! is no base64 character
TokenChars == {"e", "3", "0", "M", ".", "!"}

\* the six-bit value of a base64 character, 64 for any other character
Sextet(c) ==
  CASE c = "M" -> 12
    [] c = "e" -> 30
    [] c = "0" -> 52
    [] c = "3" -> 55
    [] OTHER -> 64

\* the bytes of base64 text without padding: four characters give three
\* bytes, three give two, two give one
RECURSIVE DecodeGroups(_)
DecodeGroups(seg) ==
  LET v(i) == Sextet(seg[i])
  IN IF seg = <<>> THEN <<>>
     ELSE IF Len(seg) = 2 THEN << (v(1) * 64 + v(2)) \div 16 >>
     ELSE IF Len(seg) = 3
       THEN LET n == (v(1) * 4096 + v(2) * 64 + v(3)) \div 4
            IN <<n \div 256, n % 256>>
     ELSE LET n == v(1) * 262144 + v(2) * 4096 + v(3) * 64 + v(4)
          IN <<n \div 65536, (n \div 256) % 256, n % 256>>
               \o DecodeGroups(SubSeq(seg, 5, Len(seg)))

\* [ok, bytes]: a character outside the alphabet or a dangling single
\* character is a decode error
Base64Decode(seg) ==
  IF (\E i \in DOMAIN seg : Sextet(seg[i]) = 64) \/ Len(seg) % 4 = 1
  THEN [ok |-> FALSE, bytes |-> <<>>]
  ELSE [ok |-> TRUE, bytes |-> DecodeGroups(seg)]

\* JSON.parse of the bytes: {} is 123 125, a digit is 48..57; the values
\* told apart are the empty object and the integers; anything else is an
\* error
RECURSIVE DigitsValue(_)
DigitsValue(bytes) ==
  IF bytes = <<>> THEN 0
  ELSE DigitsValue(SubSeq(bytes, 1, Len(bytes) - 1)) * 10 + (bytes[Len(bytes)] - 48)

ParseJson(bytes) ==
  IF bytes = <<123, 125>> THEN "{}"
  ELSE IF /\ bytes # <<>>
          /\ \A i \in DOMAIN bytes : bytes[i] \in 48..57
          /\ (Len(bytes) = 1 \/ bytes[1] # 48)
    THEN ToString(DigitsValue(bytes))
  ELSE "error"

\* a decoder that takes the second of three or more segments
decodeClaimsLoose(token) ==
  LET parts == Split(token)
      decoded == Base64Decode(parts[2])
  IN IF Len(parts) < 3 THEN "null"
     ELSE IF ~decoded.ok THEN "null"
     ELSE IF ParseJson(decoded.bytes) = "error" THEN "null"
     ELSE ParseJson(decoded.bytes)

\* the claims, or null
decodeClaims(token) ==
  LET parts == Split(token)
      decoded == Base64Decode(parts[2])
  IN IF Len(parts) # 3 THEN "null"
     ELSE IF ~decoded.ok THEN "null"
     ELSE IF ParseJson(decoded.bytes) = "error" THEN "null"
     ELSE ParseJson(decoded.bytes)

\* one decoding
Decode ==
  /\ ~idc.done
  /\ idc' = [idc EXCEPT !.done = TRUE, !.claims = decodeClaims(idc.token)]
  /\ UNCHANGED <<hostVars, mcpVars, keyVars, lifeVars, oauthVars, rules, srch, cls, ui>>

(***************************************************************************)
(* SpecCodec: one decoding of every token up to MaxTokenLen characters     *)
(***************************************************************************)
InitCodec ==
  /\ isCursor = FALSE
  /\ pkgVersion = "1.0.0"
  /\ hasWorkspace = FALSE
  /\ files = [p \in Paths |-> MissingFile]
  /\ unwritable = {}
  /\ McpIdle
  /\ KeyIdle
  /\ LifeIdle
  /\ OAuthIdle
  /\ rules = IdleRules
  /\ srch = IdleSearch
  /\ ui = IdleUi
  /\ cls = IdleQuery
  /\ \E n \in 0..MaxTokenLen : \E t \in [1..n -> TokenChars] :
       idc = [IdleCodec EXCEPT !.token = t]

SpecCodec == InitCodec /\ [][Decode]_vars

DotsAt(token) == {i \in DOMAIN token : token[i] = "."}

\* the characters between the first and the second dot
MiddleSegment(token) ==
  LET first == CHOOSE i \in DotsAt(token) : \A j \in DotsAt(token) : i <= j
      second == CHOOSE i \in DotsAt(token) \ {first} : \A j \in DotsAt(token) \ {first} : i <= j
  IN SubSeq(token, first + 1, second - 1)

\* the middle segment decodes to bytes that parse as JSON
ValidToken(token) ==
  /\ Cardinality(DotsAt(token)) = 2
  /\ Base64Decode(MiddleSegment(token)).ok
  /\ ParseJson(Base64Decode(MiddleSegment(token)).bytes) # "error"

\* C30: decodeClaims returns the JSON value parsed from the decoded middle
\* segment for every token of three segments whose middle segment decodes
\* and parses, and null for every token whose segment count is not three or
\* whose middle segment does not decode or parse.
C30_DecodeClaims ==
  idc.done =>
    IF ValidToken(idc.token)
    THEN idc.claims = ParseJson(Base64Decode(MiddleSegment(idc.token)).bytes)
    ELSE idc.claims = "null"

C30_Witness ==
  /\ idc.done
  /\ idc.token = <<"M", ".", "e", "3", "0", ".">>
  /\ idc.claims = "{}"

(***************************************************************************)
(* Claims on startup discovery (SpecStartup)                               *)
(***************************************************************************)
\* the key a config file offers: a string that is not blank, without the
\* blanks around it
Offered(doc) ==
  LET k == IF doc.kind = "obj" /\ doc.ms = "obj" /\ doc.q = "obj" /\ doc.envk = "obj"
           THEN doc.env["QVERIS_API_KEY"] ELSE "ABSENT"
  IN IF k = " KF " THEN "KF" ELSE IF k \in {"K1", "K2", "KF"} THEN k ELSE "ABSENT"

\* the home path first, the workspace path after it when a folder is open
FirstOffered ==
  IF Offered(files["home"]) # "ABSENT" THEN Offered(files["home"])
  ELSE IF hasWorkspace THEN Offered(files["ws"])
  ELSE "ABSENT"

StoredKey == secrets[ApiKeySlot]

\* the activation was cut short by a rejected store call
Aborted == secrets' = secrets /\ files' = files /\ mcpCalls' = mcpCalls

\* every writable target the writer can handle holds the key afterwards
ReconciledWith(key) ==
  /\ mcpCalls' = mcpCalls + 1
  /\ \A p \in Range(getMcpConfigPaths) :
       p \in mcpReport'.ok /\ Offered(files'[p]) = key

C32_LogoutDurable ==
  lo.since = "loggedOut" => secrets[ApiKeySlot] = "ABSENT"

(***************************************************************************)
(* SpecOverlap: handleLogin and handleLogout calls whose awaits interleave *)
(* (each webview message starts its handler without waiting for the one    *)
(* before it).  Each caller logs in once, as an account of its own; one    *)
(* handleLogout is called.                                                 *)
(***************************************************************************)
Callers == {1, 2}

\* what performLogin returns to a caller on success
LoginResultOf(p) ==
  [ok |-> TRUE,
   token |-> IF p = 1 THEN "T1" ELSE "T2",
   email |-> IF p = 1 THEN "a@b.com" ELSE "c@d.com",
   apiKey |-> IF p = 1 THEN "K1" ELSE "K2",
   listed |-> "found", log |-> <<"login", "userinfo", "list", "full">>]

InitOverlap ==
  /\ isCursor = FALSE
  /\ pkgVersion = "1.0.0"
  /\ hasWorkspace = FALSE
  /\ files = [p \in Paths |-> MissingFile]
  /\ unwritable = {}
  /\ McpIdle
  /\ KeyIdle
  /\ OAuthIdle
  /\ ToolIdle
  /\ secrets = [k \in SecretKeys |-> "ABSENT"]
  /\ gstate = [k \in GlobalKeys |-> "ABSENT"]
  /\ flow = [p \in Callers |-> IdleFlow]
  /\ lo = IdleLogout
  /\ shown = "loggedOut"
  /\ lastState = NoLoginState
  /\ activated = TRUE

\* handleLogin up to the successful return of performLogin
LoginSucceeds(p) ==
  /\ activated
  /\ flow[p].pc = "idle"
  /\ SetFlow(p, [Called(LoginResultOf(p).email, "x") EXCEPT
                   !.pc = "storeKey", !.res = LoginResultOf(p)])
  /\ LoginFrame

NextOverlap ==
  \/ \E p \in Callers :
       \/ LoginSucceeds(p)
       \/ StoreApiKey(p)
       \/ StoreAccessToken(p)
       \/ StoreEmail(p)
       \/ UpdatePlainEmail(p)
       \/ Reconcile(p)
       \/ NotifyLogin(p)
  \/ LogoutStart
  \/ DeleteApiKey
  \/ DeleteAccessToken
  \/ DeleteEmail
  \/ ClearPlainEmail
  \/ NotifyLogout

SpecOverlap == InitOverlap /\ [][NextOverlap]_vars

CompletedLogin(p) == flow[p].pc = "done" /\ flow[p].outcome = "ok"

\* the three secret slots hold what one login returned
FromLogin(p) ==
  /\ secrets[ApiKeySlot] = flow[p].res.apiKey
  /\ secrets[TokenSlot] = flow[p].res.token
  /\ secrets[EmailSlot] = flow[p].res.email

AllPresent == \A k \in {ApiKeySlot, TokenSlot, EmailSlot} : secrets[k] # "ABSENT"

AllAbsent == \A k \in {ApiKeySlot, TokenSlot, EmailSlot} : secrets[k] = "ABSENT"

C33_TwoLogins ==
  (lo.pc = "idle" /\ \A p \in Callers : CompletedLogin(p))
    => \E p \in Callers : FromLogin(p)

C33_LoginLogout ==
  (lo.pc = "done" /\ lo.outcome = "ok" /\ CompletedLogin(1) /\ flow[2].pc = "idle")
    => (AllPresent \/ AllAbsent)

\* C33: after two overlapping successful handleLogin calls the stored apiKey,
\* accessToken and email come from one and the same login; after a
\* handleLogout overlapping a handleLogin the three slots are all present or
\* all absent.
C33_Atomic == C33_TwoLogins /\ C33_LoginLogout

(***************************************************************************)
(* Write and read back (SpecMcp)                                           *)
(***************************************************************************)
\* C34: every target the writer reports as written parses to a document
\* whose mcpServers.qveris.env.QVERIS_API_KEY is the key, whatever the file
\* held before, and the reader finds the key in it.
C34_WriteThenRead ==
  \A p \in McpTargets :
    (mcpCalls >= 1 /\ p \in mcpReport.ok) =>
      /\ ConfigKey(files[p]) = mcpKey
      /\ KeyFound(files[p])
      /\ FirstKey(files, <<p>>) = mcpKey

(***************************************************************************)
(* SpecSearchView: the search webview and handleSearch, step by step.      *)
(* A click or Enter posts 'search'; the handler runs from await to await;  *)
(* what it posts is handled by the webview later, in the order posted.     *)
(* Enter starts a search while the button is disabled, so searches overlap.*)
(***************************************************************************)
NoSearchCall ==
  [pc |-> "requested", query |-> <<>>, local |-> "ABSENT", stored |-> "ABSENT",
   pre |-> "ABSENT", posts |-> <<>>]   \* posts: the tags of the messages posted

\* what the user types before a click or Enter (performSearch returns on a
\* query that trims to nothing)
TypedQueries == {<<"a">>}

\* the answers a dispatched search is run against
SearchOutcomes ==
  {r \in SearchResponses :
     \/ r.kind = "data" /\ r.search_id = "ABSENT" /\ r.message = "ABSENT"
          /\ r.results \in {"array", "absent"}
     \/ r.kind = "network"}

InitSearchView ==
  /\ isCursor = FALSE
  /\ pkgVersion = "1.0.0"
  /\ hasWorkspace = FALSE
  /\ files = [p \in Paths |-> MissingFile]
  /\ unwritable = {}
  /\ McpIdle
  /\ KeyIdle
  /\ OAuthIdle
  /\ ToolIdle
  /\ flow = [p \in Procs |-> IdleFlow]
  /\ lo = IdleLogout
  /\ shown = "loggedOut"
  /\ lastState = NoLoginState
  /\ activated = TRUE
  /\ \E apiKey \in {"ABSENT", "K1"}, sessionId \in {"ABSENT", "sess-1"} :
       /\ secrets = [[k \in SecretKeys |-> "ABSENT"] EXCEPT ![ApiKeySlot] = apiKey]
       /\ gstate = [[k \in GlobalKeys |-> "ABSENT"] EXCEPT ![SessionSlot] = sessionId]

SearchViewFrame ==
  UNCHANGED <<hostVars, mcpVars, keyVars, oauthVars, rules, srch, cls, idc, secrets, flow,
              lo, shown, lastState, activated>>

\* the tag of a posted message: its type, or the status of a progress message
PostTag(m) == IF m.type = "searchProgress" THEN m.text ELSE m.type

Tags(posts) == [i \in DOMAIN posts |-> PostTag(posts[i])]

\* a webview that leaves the button alone when a search is done
onSearchMessageNoDone(view, msg) ==
  IF msg.type = "searchProgress" /\ msg.text = "starting"
  THEN [view EXCEPT !.searchButton = "disabled"]
  ELSE IF msg.type = "searchSuccess" THEN [view EXCEPT !.displayed = msg.text]
  ELSE IF msg.type = "searchError" THEN [view EXCEPT !.searchButton = "enabled"]
  ELSE view

\* the message listener of the search webview
onSearchMessage(view, msg) ==
  IF msg.type = "searchProgress" /\ msg.text = "starting"
  THEN [view EXCEPT !.searchButton = "disabled"]
  ELSE IF msg.type = "searchProgress" /\ msg.text = "done"
  THEN [view EXCEPT !.searchButton = "enabled"]
  ELSE IF msg.type = "searchSuccess" THEN [view EXCEPT !.displayed = msg.text]
  ELSE IF msg.type = "searchError" THEN [view EXCEPT !.searchButton = "enabled"]
  ELSE view

\* performSearch in the webview: the button is disabled, 'search' is posted
PerformSearch ==
  /\ Len(ui.searches) < MaxSearches
  /\ \E query \in TypedQueries :
       ui' = [ui EXCEPT !.searchButton = "disabled",
                        !.searches = Append(@, [NoSearchCall EXCEPT !.query = query])]
  /\ UNCHANGED gstate
  /\ SearchViewFrame

\* handleSearch up to the dispatch of the request: an early return posts the
\* searchError, otherwise 'starting' is posted
SearchStart(i) ==
  /\ ui.searches[i].pc = "requested"
  /\ LET pre == SearchPrecondition(ui.searches[i].query, secrets[ApiKeySlot],
                                   gstate[SessionSlot])
         post == IF pre = "ok" THEN Post("searchProgress", "starting")
                 ELSE Post("searchError", pre)
     IN ui' = [ui EXCEPT
                 !.searches[i] = [@ EXCEPT !.pc = IF pre = "ok" THEN "calling" ELSE "ended",
                                           !.pre = pre,
                                           !.local = IF pre = "ok" THEN generateSearchId(i)
                                                     ELSE "ABSENT",
                                           !.posts = Append(@, PostTag(post))],
                 !.searchInbox = Append(@, post)]
  /\ UNCHANGED gstate
  /\ SearchViewFrame

\* what handleSearch does once its request has settled, for each answer:
\* the messages posted after 'starting', and lastSearchId afterwards ("local"
\* for the id the call generated, ABSENT for no update)
SearchResults ==
  {LET r == handleSearch(<<"a">>, "K1", "sess-1", "local", "ABSENT", resp, updateOk)
   IN [rest |-> Tail(r.posts), last |-> r.last] :
     resp \in SearchOutcomes, updateOk \in BOOLEAN}

\* the request settles: an error goes through catch and finally; a valid
\* body has lastSearchId updated and the handler awaits that update
SearchSettle(i) ==
  /\ ui.searches[i].pc = "calling"
  /\ \E r \in SearchResults :
       IF r.rest[1].type = "searchSuccess"
       THEN LET stored == IF r.last = "local" THEN ui.searches[i].local ELSE r.last
            IN /\ gstate' = [gstate EXCEPT ![LastSearchSlot] = stored]
               /\ ui' = [ui EXCEPT !.searches[i] =
                                      [@ EXCEPT !.pc = "updating", !.stored = stored]]
       ELSE /\ UNCHANGED gstate
            /\ ui' = [ui EXCEPT
                        !.searches[i] = [@ EXCEPT !.pc = "ended", !.posts = @ \o Tags(r.rest)],
                        !.searchInbox = @ \o r.rest]
  /\ SearchViewFrame

\* the update resolved: searchSuccess, then 'done' from the finally block
SearchSucceed(i) ==
  /\ ui.searches[i].pc = "updating"
  /\ LET rest == <<Post("searchSuccess", ui.searches[i].stored),
                   Post("searchProgress", "done")>>
     IN ui' = [ui EXCEPT
                 !.searches[i] = [@ EXCEPT !.pc = "ended", !.posts = @ \o Tags(rest)],
                 !.searchInbox = @ \o rest]
  /\ UNCHANGED gstate
  /\ SearchViewFrame

SearchHandler == \E i \in DOMAIN ui.searches : SearchStart(i) \/ SearchSettle(i) \/ SearchSucceed(i)

\* the webview handles the next message posted to it
SearchDeliver ==
  /\ ui.searchInbox # <<>>
  /\ ui' = [onSearchMessage(ui, Head(ui.searchInbox)) EXCEPT !.searchInbox = Tail(@)]
  /\ UNCHANGED gstate
  /\ SearchViewFrame

\* handleExecute builds its request: search_id is lastSearchId as it is now
ExecuteRequest ==
  /\ Truthy(secrets[ApiKeySlot])
  /\ Truthy(gstate[SessionSlot])
  /\ ui' = [ui EXCEPT !.lastExecute =
                        [sent |-> TRUE, ofDisplayed |-> gstate[LastSearchSlot] = ui.displayed]]
  /\ UNCHANGED gstate
  /\ SearchViewFrame

NextSearchView == PerformSearch \/ SearchHandler \/ SearchDeliver \/ ExecuteRequest

\* a handler that can run does run; a posted message is handled
SpecSearchView ==
  /\ InitSearchView
  /\ [][NextSearchView]_vars
  /\ WF_vars(SearchHandler)
  /\ WF_vars(SearchDeliver)

SearchProtocol(c) ==
  \/ c.pc = "requested" /\ c.posts = <<>>
  \/ c.pc \in {"calling", "updating"} /\ c.posts = <<"starting">>
  \/ c.pc = "ended" /\ c.pre # "ok" /\ c.posts = <<"searchError">>
  \/ c.pc = "ended" /\ c.pre = "ok"
       /\ c.posts \in {<<"starting", "searchSuccess", "done">>,
                             <<"starting", "searchError", "done">>}

SearchStarted(i) == i \in DOMAIN ui.searches /\ ui.searches[i].pc \in {"calling", "updating"}

SearchEnded(i) == i \in DOMAIN ui.searches /\ ui.searches[i].pc = "ended"

C38_SearchIdOfDisplayed ==
  ui.lastExecute.sent => ui.lastExecute.ofDisplayed

(***************************************************************************)
(* SpecToolView: tool selection, the tool-specification webview and        *)
(* handleExecute, step by step.  A click in the search view stores         *)
(* selectedTool; checkAndUpdateTool runs on a timer; the webview handles   *)
(* what the provider posts in the order posted.                            *)
(***************************************************************************)
MaxSelections == 2

MaxExecutions == 2

ToolIds == {"t1", "t2"}

InitToolView ==
  /\ isCursor = FALSE
  /\ pkgVersion = "1.0.0"
  /\ hasWorkspace = FALSE
  /\ files = [p \in Paths |-> MissingFile]
  /\ unwritable = {}
  /\ McpIdle
  /\ KeyIdle
  /\ OAuthIdle
  /\ rules = IdleRules
  /\ srch = IdleSearch
  /\ cls = IdleQuery
  /\ idc = IdleCodec
  /\ flow = [p \in Procs |-> IdleFlow]
  /\ lo = IdleLogout
  /\ shown = "loggedOut"
  /\ lastState = NoLoginState
  /\ activated = TRUE
  /\ \E apiKey \in {"ABSENT", "K1"}, sessionId \in {"ABSENT", "sess-1"} :
       /\ secrets = [[k \in SecretKeys |-> "ABSENT"] EXCEPT ![ApiKeySlot] = apiKey]
       /\ gstate = [[k \in GlobalKeys |-> "ABSENT"] EXCEPT ![SessionSlot] = sessionId]
  /\ \E kept \in {"null", "t1"} : ui = [IdleUi EXCEPT !.selectedTool = kept]

ToolViewFrame ==
  UNCHANGED <<hostVars, mcpVars, keyVars, lifeVars, oauthVars, rules, srch, cls, idc>>

\* a click on a result: broadcastToolSelection stores the tool
SelectTool ==
  /\ ui.selections < MaxSelections
  /\ \E t \in ToolIds :
       ui' = [ui EXCEPT !.selectedTool = t, !.selections = @ + 1]
  /\ ToolViewFrame

\* checkAndUpdateTool when the selected id differs from the last one sent
CheckTool ==
  /\ ui.selectedTool # ui.lastSentToolId
  /\ ui' = [ui EXCEPT !.lastSentToolId = ui.selectedTool,
                      !.toolInbox = Append(@, Post("toolSelected", ui.selectedTool))]
  /\ ToolViewFrame

\* the content is cleared and the flags reset
ClearedView(view) ==
  [view EXCEPT !.currentToolId = "null", !.isExecuting = FALSE,
               !.hasExecutionResult = FALSE, !.executeButton = "none"]

\* the form of a tool is rendered anew
RenderedView(view, toolId) ==
  [view EXCEPT !.currentToolId = toolId, !.hasExecutionResult = FALSE,
               !.executeButton = "enabled"]

\* a renderer without the isExecuting check
showToolExecutionUnguarded(view, toolId) ==
  IF toolId = "null" THEN ClearedView(view)
  ELSE IF view.currentToolId = toolId THEN view
  ELSE RenderedView(view, toolId)

showToolExecution(view, toolId) ==
  IF toolId = "null" THEN ClearedView(view)
  ELSE IF view.isExecuting THEN view
  ELSE IF view.currentToolId = toolId THEN view
  ELSE RenderedView(view, toolId)

\* document.getElementById('execute-button').disabled = off, if there is one
SetExecuteButton(view, state) ==
  IF view.executeButton = "none" THEN view ELSE [view EXCEPT !.executeButton = state]

\* executeSuccess and executeError: the result is shown when there is a
\* result area, and the execution is over
ResultShown(view) ==
  SetExecuteButton([view EXCEPT !.hasExecutionResult = (view.currentToolId # "null") \/ @,
                                !.isExecuting = FALSE], "enabled")

\* the message listener of the tool-specification webview
onToolMessage(view, msg) ==
  IF msg.type = "toolSelected"
  THEN IF msg.text # "null" THEN showToolExecution(view, msg.text) ELSE ClearedView(view)
  ELSE IF msg.type = "executeProgress" /\ msg.text = "starting"
  THEN SetExecuteButton([view EXCEPT !.isExecuting = TRUE, !.hasExecutionResult = FALSE],
                        "disabled")
  ELSE IF msg.type \in {"executeSuccess", "executeError"} THEN ResultShown(view)
  ELSE IF msg.type = "executeProgress" /\ msg.text = "done" /\ ~view.hasExecutionResult
  THEN SetExecuteButton([view EXCEPT !.isExecuting = FALSE], "enabled")
  ELSE view

ToolDeliver ==
  /\ ui.toolInbox # <<>>
  /\ ui' = [onToolMessage(ui, Head(ui.toolInbox)) EXCEPT !.toolInbox = Tail(@)]
  /\ ToolViewFrame

\* the form is submitted: the button is disabled, 'execute' is posted
SubmitExecute ==
  /\ Len(ui.executions) < MaxExecutions
  /\ ui.executeButton = "enabled"
  /\ ui' = [ui EXCEPT !.executeButton = "disabled", !.isExecuting = TRUE,
                      !.hasExecutionResult = FALSE,
                      !.executions = Append(@, "requested")]
  /\ ToolViewFrame

\* handleExecute up to the request: an early return posts the executeError,
\* otherwise 'starting' is posted
ExecuteStart(i) ==
  /\ ui.executions[i] = "requested"
  /\ ui' = IF ~Truthy(secrets[ApiKeySlot])
           THEN [ui EXCEPT !.executions[i] = "ended",
                           !.toolInbox = Append(@, Post("executeError",
                                                   "Please sign in first to execute tools."))]
           ELSE IF ~Truthy(gstate[SessionSlot])
           THEN [ui EXCEPT !.executions[i] = "ended",
                           !.toolInbox = Append(@, Post("executeError",
                                  "Session not initialized. Please reload the extension."))]
           ELSE [ui EXCEPT !.executions[i] = "calling",
                           !.toolInbox = Append(@, Post("executeProgress", "starting"))]
  /\ ToolViewFrame

\* the request settles: executeSuccess or executeError, then 'done'
ExecuteSettle(i) ==
  /\ ui.executions[i] = "calling"
  /\ \E type \in {"executeSuccess", "executeError"} :
       ui' = [ui EXCEPT !.executions[i] = "ended",
                        !.toolInbox = @ \o <<Post(type, "result"),
                                             Post("executeProgress", "done")>>]
  /\ ToolViewFrame

ExecuteHandler == \E i \in DOMAIN ui.executions : ExecuteStart(i) \/ ExecuteSettle(i)

NextToolView == SelectTool \/ CheckTool \/ ToolDeliver \/ SubmitExecute \/ ExecuteHandler

\* the timer fires, a handler that can run does run, a posted message is handled
SpecToolView ==
  /\ InitToolView
  /\ [][NextToolView]_vars
  /\ WF_vars(CheckTool)
  /\ WF_vars(ExecuteHandler)
  /\ WF_vars(ToolDeliver)

NoExecutionInFlight ==
  /\ \A i \in DOMAIN ui.executions : ui.executions[i] = "ended"
  /\ ~ui.isExecuting

\* nothing is left to happen unless the user selects or executes again
Settled ==
  /\ NoExecutionInFlight
  /\ ui.toolInbox = <<>>
  /\ ui.lastSentToolId = ui.selectedTool

\* C36: once the selection has been sent, every message handled and no
\* execution is in flight, the tool rendered is the tool stored as
\* selectedTool.
C36_Converges == Settled => ui.currentToolId = ui.selectedTool

ToolView(view) ==
  <<view.currentToolId, view.isExecuting, view.hasExecutionResult, view.executeButton>>

\* the webview handles a toolSelected for a tool while isExecuting
SelectedWhileExecuting ==
  /\ ui.toolInbox # <<>>
  /\ Head(ui.toolInbox).type = "toolSelected"
  /\ Head(ui.toolInbox).text # "null"
  /\ ui.isExecuting
  /\ ui'.toolInbox = Tail(ui.toolInbox)

SecretAt(name) == IF name \in DOMAIN secrets THEN secrets[name] ELSE "ABSENT"

InitCopy ==
  /\ isCursor \in BOOLEAN
  /\ pkgVersion = "1.0.0"
  /\ hasWorkspace = FALSE
  /\ files = [p \in Paths |-> MissingFile]
  /\ unwritable = {}
  /\ McpIdle
  /\ KeyIdle
  /\ OAuthIdle
  /\ rules = IdleRules
  /\ srch = IdleSearch
  /\ cls = IdleQuery
  /\ idc = IdleCodec
  /\ ui = [IdleUi EXCEPT !.selectedTool = "t1"]
  /\ secrets = [k \in SecretKeys |-> "ABSENT"]
  /\ gstate = [[k \in GlobalKeys |-> "ABSENT"] EXCEPT
                 ![SessionSlot] = "sess-1", ![LastSearchSlot] = "prev-1",
                 ![VersionSlot] = pkgVersion]
  /\ flow = [p \in Procs |-> IdleFlow]
  /\ lo = IdleLogout
  /\ shown = "loggedOut"
  /\ lastState = NoLoginState
  /\ activated = TRUE

\* the command: the key is copied, or the warning that none is stored
CopyApiKey(by, name) ==
  /\ Quiescent
  /\ ui' = [ui EXCEPT !.copy =
              [by |-> by,
               result |-> IF Truthy(SecretAt(name)) THEN SecretAt(name) ELSE "noKey",
               hasKey |-> getLoginState(secrets, gstate).hasKey]]
  /\ UNCHANGED <<hostVars, mcpVars, keyVars, lifeVars, oauthVars, rules, srch, cls, idc>>

\* extension.ts: context.secrets.get('qverisApiKey')
CopyApiKeyExtension == CopyApiKey("extension", "qverisApiKey")

\* homeViewProvider.ts: context.secrets.get(secretKeyName('qverisApiKey'))
CopyApiKeyHome == CopyApiKey("home", secretKeyName("qverisApiKey"))

NextCopy ==
  \/ \E p \in Procs :
       \/ Quiescent /\ LoginSucceeds(p)
       \/ StoreApiKey(p)
       \/ StoreAccessToken(p)
       \/ StoreEmail(p)
       \/ UpdatePlainEmail(p)
       \/ Reconcile(p)
       \/ NotifyLogin(p)
       \/ LoginReturn(p)
  \/ Quiescent /\ LogoutStart
  \/ DeleteApiKey
  \/ DeleteAccessToken
  \/ DeleteEmail
  \/ ClearPlainEmail
  \/ NotifyLogout
  \/ LogoutReturn
  \/ CopyApiKeyExtension
  \/ CopyApiKeyHome

SpecCopy == InitCopy /\ [][NextCopy]_vars

\* C40: the Copy API Key command finds the key the login-state query finds:
\* it does not report that no key is stored while getLoginState reports
\* hasKey true.
C40_SameSlot ==
  ui.copy.by # "none" => (ui.copy.hasKey <=> ui.copy.result # "noKey")

\* a step of handleLogout
LogoutStep == lo'.pc # lo.pc

\* C39: a step of handleLogout changes no secret but the three namespaced
\* slots and no global-state key but the namespaced email: sessionId,
\* lastSearchId, the stored version, selectedTool, the MCP config files and
\* the rules file stay as they are.
C39_LogoutFrame ==
  [][LogoutStep =>
       /\ \A k \in SecretKeys \ {ApiKeySlot, TokenSlot, EmailSlot} : secrets'[k] = secrets[k]
       /\ \A k \in {ApiKeySlot, TokenSlot, EmailSlot} : secrets'[k] \in {secrets[k], "ABSENT"}
       /\ \A k \in GlobalKeys \ {PlainEmailSlot} : gstate'[k] = gstate[k]
       /\ gstate'[PlainEmailSlot] \in {gstate[PlainEmailSlot], "ABSENT"}
       /\ ui'.selectedTool = ui.selectedTool
       /\ files' = files
       /\ rules' = rules]_vars

\* a logout has completed after a login: the slots are empty, the rest is
\* what it was, and the config file still holds the key the login wrote
C39_Witness ==
  /\ lo.pc = "done"
  /\ lo.outcome = "ok"
  /\ AllAbsent
  /\ gstate[PlainEmailSlot] = "ABSENT"
  /\ gstate[SessionSlot] = "sess-1"
  /\ gstate[LastSearchSlot] = "prev-1"
  /\ gstate[VersionSlot] = pkgVersion
  /\ ui.selectedTool = "t1"
  /\ ConfigKey(files["home"]) = "K1"

====
